---- MODULE Spec2Model ----
(***************************************************************************)
(* WeaR-studio: the RTMP transmitter (core/StreamManager.cpp) and the      *)
(* encoder frame queue (core/EncoderManager.cpp) as state machines.        *)
(*                                                                         *)
(* Threads of the transmitter: the control thread (configure, startStream, *)
(* stopStream), the producer thread (writePacket, called from the encoder  *)
(* callback) and the output thread (Impl::outputLoop).  A packet is named  *)
(* by its submission index, which stands for its PTS.                      *)
(***************************************************************************)
EXTENDS Integers, Sequences, FiniteSets, TLC

\* ---- bounds of the explored behaviours (not program constants) ----
MaxPackets == 3
MaxRefused == 2
MaxBurst == 302
MaxSends == 3
MaxFrames == 4
MaxTicks == 4
MaxElapsed == 3
MaxQueued == 1
MaxItems == 3
MaxCoord == 2
MaxScenes == 3
MaxSources == 2
MaxStamped == 3600
MaxCaptured == 3

\* ---- program constants ----
MAX_QUEUE_SIZE == 300
DefaultMaxReconnectAttempts == 5

DefaultMaxQueueSize == 30
AV_TIME_BASE == 1000000

\* The encoder names initializeEncoder looks up, enum EncoderType and enum
\* RateControlMode.
Codecs == {"h264_nvenc", "h264_amf", "h264_qsv", "libx264"}
EncoderType == {"NVENC_H264", "NVENC_HEVC", "AMF_H264", "AMF_HEVC", "QSV_H264",
                "QSV_HEVC", "X264", "X265", "Auto"}
RateControlMode == {"CBR", "VBR", "CRF", "CQP"}

\* The threads that call pushFrame, and the queue sizes setMaxQueueSize is given.
Pushers == {1, 2}
QueueSizeChoices == {1, 2}

Urls == {"", "rtmp://sink"}
AttemptChoices == {0, 1, 2}

VARIABLES
    m_state,            \* std::atomic<StreamState>
    m_running,          \* std::atomic<bool>
    m_outputThread,     \* "none" (not joinable) or the position of outputLoop
    queuedPacket,       \* outputLoop's local: the QueuedPacket taken from the queue
    reconnectAttempts,  \* outputLoop's local counter
    m_settings,         \* StreamSettings: url, maxReconnectAttempts
    m_formatContext,    \* m_formatContext != nullptr
    m_headerWritten,
    m_packetQueue,      \* std::deque<QueuedPacket>: records [packet, isKeyframe]
    m_stats,            \* StreamStatistics: packetsWritten, droppedPackets, reconnectCount
    terminated,         \* std::terminate was called (assignment to a joinable std::thread)
    stopPc,             \* control thread: "idle", or "join" inside stop()
    writePc,            \* producer thread: "idle", or "queuePacket" inside writePacket
    packet,             \* producer's local: the packet being submitted, 0 = none
    isKeyframe,         \* producer's argument: the packet being submitted is a keyframe
    sinkAccepts,        \* environment: the ingest endpoint accepts a connection now
    submitted,          \* history: number of writePacket calls so far
    sinkLog,            \* history: the packets written to the sink, in order
    lastResult,         \* history: what the last writePacket call returned
    session,            \* history of the current startStream: see NewSession
    awaitingFirst,      \* history: the open connection has written no packet yet
    trailerWritten,     \* history: the last cleanup() called av_write_trailer
    stopSnapshot,       \* history: the queue as it was when stop() was called
    streamStop,         \* history since the last start: see NoStops
    traced,             \* the histories awaitingFirst, stopSnapshot, streamStop are kept
    m_codecpar,         \* AVCodecParameters*: "none" (nullptr), "bare" or "extradata"
    \* ---- EncoderManager::Impl ----
    enc_running,        \* m_running of the encoder
    m_codecContext,     \* m_codecContext != nullptr (m_swsContext, m_packet likewise)
    m_encoderThread,    \* "none" (not joinable) or the position of encodingLoop
    queuedFrame,        \* encodingLoop's local: the frame taken from the queue, 0 = none
    codecHeld,          \* frames the codec holds and has not yet returned as packets
    m_frameQueue,       \* std::deque<QueuedFrame>
    m_maxQueueSize,
    enc_stats,          \* EncoderManager::Statistics: framesEncoded, framesDropped
    encStopPc,          \* control thread: "idle", or "join" inside EncoderManager stop()
    pushPc,             \* per pushing thread: "idle", or "convert" inside pushFrame
    frame,              \* per pushing thread: the frame being pushed, 0 = none
    faulted,            \* the process died on a freed codec or scaler context
    encRun,             \* history of the current encoder run: see NewRun
    encStop,            \* history since the last start: see NoStops
    \* ---- SceneManager ----
    m_renderLoopRunning,    \* std::atomic<bool>; the render timer is active
    m_encoderOutputEnabled, \* std::atomic<bool>
    m_frameTimer,           \* m_frameTimer.elapsed(), in timer intervals
    m_lastFrameTime,
    lastPts,                \* history: pts of the last frame given to pushFrame, -1 = none
    ticksEnabled,           \* history: render ticks that ran with encoder output enabled
    renderStop,             \* history since the last start: see NoStops
    \* ---- Scene ----
    m_items,            \* QList<SceneItem*>, bottom layer first
    m_visible,          \* the items whose m_visible is true
    m_mutex,            \* QMutex of the scene: "none" or the thread that holds it
    call,               \* control thread: the scene operation it has entered, see NoCall
    renderPc,           \* render thread: "idle", or its position in Scene::render
    it,                 \* render thread: position of the loop over m_items
    pass,               \* history: the layers the running pass has visited, in order
    orders,             \* history: the values of m_items since the running pass began
    ret,                \* control thread: what its last scene operation returned, see NoRet
    \* ---- SceneItem (one item) ----
    m_transform,        \* ItemTransform: position, size, rotation, opacity (percent)
    m_locked,            \* bool
    \* ---- SceneManager: its scenes ----
    m_scenes,           \* QList<Scene*>
    m_activeScene,      \* Scene*, 0 = nullptr
    created,            \* the scenes constructed so far are 1 .. created
    sceneRet,            \* history: the last call on the scene list, see NoSceneCall
    \* ---- PluginManager, the sources and the items that refer to them ----
    m_plugins,          \* per plugin id: entry.instance, 0 = nullptr (isLoaded false)
    made,               \* the source objects constructed so far are 1 .. made
    live,               \* the source objects that have not been destroyed
    inScene,            \* the items constructed and not destroyed
    m_source,           \* per item: ISource*, 0 = nullptr
    m_ownsSource,       \* per item: bool
    useAfterFree,        \* the process died on a destroyed source object
    enc_settings,       \* EncoderSettings m_settings: encoderType, rateControl
    registered,         \* the names avcodec_find_encoder_by_name finds a codec for
    m_activeEncoderName,
    m_activeEncoderType,
    m_previewCallback,  \* SceneManager: a preview callback is set
    m_outputResolution, \* SceneManager: the size of the frames rendered
    preview,             \* history: the calls of the preview callback in the last tick
    stamped,             \* the frames stamped from the frame counter: rate, count, last DTS
    capture,             \* the capture source: its fields, its mutex, the caller's position
    statsWrites         \* history, per statistics field: the mutex held at its last write

streamVars == << m_state, m_running, m_outputThread, queuedPacket, reconnectAttempts,
                 m_settings, m_formatContext, m_headerWritten, m_packetQueue, m_stats,
                 terminated, stopPc, writePc, packet, isKeyframe, sinkAccepts,
                 submitted, sinkLog, lastResult, session, awaitingFirst,
                 trailerWritten, stopSnapshot, streamStop, traced, m_codecpar >>

encVars == << enc_running, m_codecContext, m_encoderThread, queuedFrame, codecHeld,
              m_frameQueue, m_maxQueueSize, enc_stats, encStopPc, pushPc, frame,
              faulted, encRun, encStop >>

previewVars == << m_previewCallback, m_outputResolution, preview >>

sceneVars == << m_renderLoopRunning, m_encoderOutputEnabled, m_frameTimer,
                m_lastFrameTime, lastPts, ticksEnabled, renderStop, previewVars >>

layerVars == << m_items, m_visible, m_mutex, call, renderPc, it, pass, orders, ret >>

itemVars == << m_transform, m_locked >>

scenesVars == << m_scenes, m_activeScene, created, sceneRet >>

sourceVars == << m_plugins, made, live, inScene, m_source, m_ownsSource, useAfterFree >>

backendVars == << enc_settings, registered, m_activeEncoderName, m_activeEncoderType >>

timingVars == << stamped >>

captureVars == << capture >>

lockVars == << statsWrites >>

\* The timestamps of the encoder, the capture source and the locks held at the
\* writes of the statistics.
sideVars == << timingVars, captureVars, lockVars >>

\* The objects beside the three stages and the layer list of the scene.
objectVars == << itemVars, scenesVars, sourceVars, backendVars, sideVars >>

\* The three stages and the layer list of the scene.
pipelineVars == << streamVars, encVars, sceneVars, layerVars >>

vars == << pipelineVars, objectVars >>

StreamState == {"Stopped", "Connecting", "Streaming", "Reconnecting", "Error"}

\* History of the stop calls of a stage since the stage was last started: a stop
\* call found the stage already stopped, and the number of signals the stop
\* calls have emitted (disconnected, encoderStopped, renderLoopStopped).
NoStops == [onStopped |-> FALSE, emitted |-> 0]

\* The scene items (SceneItem*); 0 is nullptr.
Items == 1 .. MaxItems

\* The control thread is inside no scene operation.
NoCall == [op |-> "none", item |-> 0, from |-> 0, to |-> 0]

\* No scene operation has returned since the control thread entered one. Of a
\* returned operation the name and the value are kept: an int as it is, a bool
\* as 1 or 0, void as 0.
NoRet == [op |-> "none", value |-> 0]

\* The plugins the manager has registered, and the scene items of the source model.
PluginIds == 1 .. 2
Layers == 1 .. 2

\* No call has been made on the scene list of the manager.
\* The preview callback was not called in the last render tick, if there was one.
NoPreview == [calls |-> 0, frame |-> 0]

\* The sizes setOutputResolution is given: the default and an empty size.
Resolutions == {"1920x1080", "0x0"}

\* The frame rates the encoder is configured with (fpsNum, fpsDen), the default
\* first.
DefaultFrameRate == [fpsNum |-> 60, fpsDen |-> 1]
FrameRates == {DefaultFrameRate, [fpsNum |-> 30, fpsDen |-> 1],
               [fpsNum |-> 60000, fpsDen |-> 1001]}

\* No frame stamped yet by an encoder configured with the frame rate.
NoneStamped(rate) == [rate |-> rate, frames |-> 0, dts |-> 0]

\* A CaptureManager after construction: not initialized, not running, its mutex
\* free, no texture arrived, and the thread that calls it in none of its functions.
\* closed tells that the target of the capture session has closed; returned is the
\* texture the last captureVideoFrame() returned, 0 for no frame.
NotCapturing ==
    [m_initialized |-> FALSE, m_running |-> FALSE, m_mutex |-> "free",
     m_latestTexture |-> 0, closed |-> FALSE, returned |-> 0, pc |-> "idle"]

\* The fields of the statistics of the encoder and of the transmitter.
StatsFields ==
    {"framesEncoded", "framesDropped", "packetsWritten", "droppedPackets",
     "reconnectCount"}

\* No field of the statistics written yet.
NoStatsWritten ==
    [f \in StatsFields |-> "unwritten"]

\* The field of the statistics is written by a thread that holds the mutex.
statWritten(field, mutex) ==
    statsWrites' = [statsWrites EXCEPT ![field] = mutex]

\* The same for a write that is made only when the condition holds.
statWrittenIf(cond, field, mutex) ==
    statsWrites' = IF cond THEN [statsWrites EXCEPT ![field] = mutex] ELSE statsWrites

NoSceneCall == [op |-> "none", scene |-> 0, result |-> FALSE]

\* A default-constructed QueuedPacket (packet = nullptr).
NoPacket == [packet |-> 0, isKeyframe |-> FALSE]

\* History of one startStream: connection attempts refused and accepted, attempts
\* made from the Reconnecting state since the last successful connect, state changes
\* into Reconnecting, and statistics().reconnectCount when the stream was started.
NewSession ==
    [refused |-> 0, accepted |-> 0, retries |-> 0, entered |-> 0,
     reconnectCount0 |-> m_stats.reconnectCount]

Constructed ==
    /\ m_state = "Stopped"
    /\ m_codecpar = "none"
    /\ m_running = FALSE
    /\ m_outputThread = "none"
    /\ queuedPacket = NoPacket
    /\ reconnectAttempts = 0
    /\ m_settings = [url |-> "", maxReconnectAttempts |-> DefaultMaxReconnectAttempts]
    /\ m_formatContext = FALSE
    /\ m_headerWritten = FALSE
    /\ m_packetQueue = << >>
    /\ m_stats = [packetsWritten |-> 0, droppedPackets |-> 0, reconnectCount |-> 0]
    /\ terminated = FALSE
    /\ stopPc = "idle"
    /\ writePc = "idle"
    /\ packet = 0
    /\ isKeyframe = FALSE
    /\ awaitingFirst = FALSE
    /\ trailerWritten = FALSE
    /\ stopSnapshot = << >>
    /\ streamStop = NoStops
    /\ sinkAccepts = TRUE
    /\ submitted = 0
    /\ sinkLog = << >>
    /\ lastResult = "none"
    /\ session = [refused |-> 0, accepted |-> 0, retries |-> 0, entered |-> 0,
                  reconnectCount0 |-> 0]
    /\ enc_running = FALSE
    /\ m_codecContext = FALSE
    /\ m_encoderThread = "none"
    /\ queuedFrame = 0
    /\ codecHeld = 0
    /\ m_frameQueue = << >>
    /\ m_maxQueueSize = DefaultMaxQueueSize
    /\ enc_stats = [framesEncoded |-> 0, framesDropped |-> 0]
    /\ encStopPc = "idle"
    /\ pushPc = [t \in Pushers |-> "idle"]
    /\ frame = [t \in Pushers |-> 0]
    /\ faulted = FALSE
    /\ encRun = [pushed |-> 0, dequeued |-> 0, framesDropped0 |-> 0, total |-> 0,
                 flushed |-> 0]
    /\ encStop = NoStops
    /\ m_renderLoopRunning = FALSE
    /\ m_encoderOutputEnabled = TRUE
    /\ m_frameTimer = 0
    /\ m_lastFrameTime = 0
    /\ lastPts = -1
    /\ ticksEnabled = 0
    /\ renderStop = NoStops
    /\ m_items = << >>
    /\ m_visible = Items
    /\ m_mutex = "none"
    /\ call = NoCall
    /\ renderPc = "idle"
    /\ it = 0
    /\ pass = << >>
    /\ orders = {}
    /\ ret = NoRet
    /\ m_transform = [position |-> 0, size |-> 0, rotation |-> 0, opacity |-> 100]
    /\ m_locked = FALSE
    /\ m_scenes = << 1 >>
    /\ m_activeScene = 1
    /\ created = 1
    /\ sceneRet = NoSceneCall
    /\ m_plugins = [id \in PluginIds |-> 0]
    /\ made = 0
    /\ live = {}
    /\ inScene = {}
    /\ m_source = [l \in Layers |-> 0]
    /\ m_ownsSource = [l \in Layers |-> FALSE]
    /\ useAfterFree = FALSE
    /\ enc_settings = [encoderType |-> "Auto", rateControl |-> "CBR"]
    /\ registered \in SUBSET Codecs
    /\ m_activeEncoderName = ""
    /\ m_activeEncoderType = "X264"
    /\ m_previewCallback = FALSE
    /\ m_outputResolution = "1920x1080"
    /\ preview = NoPreview
    /\ stamped \in {NoneStamped(r) : r \in FrameRates}
    /\ capture = NotCapturing
    /\ statsWrites = NoStatsWritten

\* The state after construction, no history of the transmitter kept, linked with
\* a libavcodec that has every H.264 encoder the program asks for.
Init ==
    /\ Constructed
    /\ registered = Codecs
    /\ stamped = NoneStamped(DefaultFrameRate)
    /\ traced = FALSE

\* The state after construction, linked with any build of libavcodec.
InitBuilds ==
    /\ Constructed
    /\ stamped = NoneStamped(DefaultFrameRate)
    /\ traced = FALSE

\* The state after construction, the histories of the transmitter kept.
InitTraced ==
    /\ Constructed
    /\ registered = Codecs
    /\ stamped = NoneStamped(DefaultFrameRate)
    /\ traced = TRUE

\* The value of a history of the transmitter after a step that gives it value.
history(value, untraced) ==
    IF traced THEN value ELSE untraced

\* ---------------------------------------------------------------------------
\* Control thread
\* ---------------------------------------------------------------------------

\* Impl::configure: refused while Streaming or Connecting, else stores the settings.
StreamManager_configure ==
    /\ ~terminated /\ stopPc = "idle"
    /\ UNCHANGED << isKeyframe, awaitingFirst, trailerWritten, stopSnapshot,
                    streamStop >>
    /\ \E u \in Urls, n \in AttemptChoices :
         m_settings' = IF m_state \in {"Streaming", "Connecting"}
                       THEN m_settings
                       ELSE [url |-> u, maxReconnectAttempts |-> n]
    /\ UNCHANGED << m_state, m_running, m_outputThread, queuedPacket, reconnectAttempts,
                    m_formatContext, m_headerWritten, m_packetQueue, m_stats,
                    terminated, stopPc, writePc, packet, sinkAccepts, submitted,
                    sinkLog, lastResult, session >>
    /\ UNCHANGED << encVars, sceneVars, layerVars, traced, m_codecpar, objectVars >>

\* Impl::start() with the settings s in place.  Returns at once when Streaming or
\* when the URL is empty; otherwise setState(Connecting), m_running = true and the
\* assignment m_outputThread = std::thread(...), which calls std::terminate when
\* the previous thread object is still joinable.
start(s) ==
    /\ UNCHANGED << isKeyframe, awaitingFirst, trailerWritten, stopSnapshot >>
    /\ m_settings' = s
    /\ IF m_state = "Streaming" \/ s.url = ""
       THEN UNCHANGED << m_state, m_running, m_outputThread, reconnectAttempts,
                         terminated, session, streamStop >>
       ELSE /\ m_state' = "Connecting"
            /\ m_running' = TRUE
            /\ session' = NewSession
            /\ streamStop' = NoStops
            /\ IF m_outputThread # "none"
               THEN /\ terminated' = TRUE
                    /\ UNCHANGED << m_outputThread, reconnectAttempts >>
               ELSE /\ m_outputThread' = "while"
                    /\ reconnectAttempts' = 0
                    /\ UNCHANGED terminated
    /\ UNCHANGED << queuedPacket, m_formatContext, m_headerWritten, m_packetQueue,
                    m_stats, stopPc, writePc, packet, sinkAccepts, submitted, sinkLog,
                    lastResult >>
    /\ UNCHANGED << encVars, sceneVars, layerVars, traced, m_codecpar, objectVars >>

\* StreamManager::startStream()
StreamManager_startStream ==
    /\ ~terminated /\ stopPc = "idle"
    /\ start(m_settings)

\* StreamManager::startStream(url, streamKey): stores the URL, then start().
StreamManager_startStreamUrl ==
    /\ ~terminated /\ stopPc = "idle"
    /\ \E u \in Urls : start([m_settings EXCEPT !.url = u])

\* Impl::cleanup: m_headerWritten is cleared first; then, with a context, the
\* trailer is written if m_headerWritten (as it is now) is set, the IO is closed
\* and the context is freed; the packet queue is cleared.
cleanup ==
    /\ m_headerWritten' = FALSE
    /\ trailerWritten' = (m_formatContext /\ m_headerWritten')
    /\ m_formatContext' = FALSE
    /\ m_packetQueue' = << >>

\* A stop() that never returns early.
alreadyStopped_Never ==
    FALSE

\* The early return of Impl::stop.
alreadyStopped ==
    m_state = "Stopped"

\* Impl::stop, up to the join: nothing to do when Stopped, else m_running = false.
StreamManager_stopStream ==
    /\ ~terminated /\ stopPc = "idle"
    /\ IF alreadyStopped
       THEN UNCHANGED << m_running, stopPc, stopSnapshot >>
       ELSE /\ m_running' = FALSE
            /\ stopPc' = "join"
            /\ stopSnapshot' = history(m_packetQueue, << >>)
    /\ streamStop' = history([streamStop EXCEPT !.onStopped = @ \/ m_state = "Stopped"],
                              streamStop)
    /\ UNCHANGED << isKeyframe, awaitingFirst, trailerWritten >>
    /\ UNCHANGED << m_state, m_outputThread, queuedPacket, reconnectAttempts, m_settings,
                    m_formatContext, m_headerWritten, m_packetQueue, m_stats,
                    terminated, writePc, packet, sinkAccepts, submitted, sinkLog,
                    lastResult, session >>
    /\ UNCHANGED << encVars, sceneVars, layerVars, traced, m_codecpar, objectVars >>

\* Impl::stop, from the join on: the join returns once outputLoop has returned;
\* then cleanup(), setState(Stopped) and the disconnected signal.
stop_join ==
    /\ ~terminated /\ stopPc = "join"
    /\ m_outputThread \in {"none", "returned"}
    /\ m_outputThread' = "none"
    /\ cleanup
    /\ m_state' = "Stopped"
    /\ stopPc' = "idle"
    /\ awaitingFirst' = FALSE
    /\ stopSnapshot' = << >>
    /\ streamStop' = history([streamStop EXCEPT !.emitted = @ + 1], streamStop)
    /\ UNCHANGED isKeyframe
    /\ UNCHANGED << m_running, queuedPacket, reconnectAttempts, m_settings, m_stats,
                    terminated, writePc, packet, sinkAccepts, submitted, sinkLog,
                    lastResult, session >>
    /\ UNCHANGED << encVars, sceneVars, layerVars, traced, m_codecpar, objectVars >>

\* ---------------------------------------------------------------------------
\* Output thread: Impl::outputLoop
\* ---------------------------------------------------------------------------

\* A loop that never tests the running flag: while (true).
loopExits_Never ==
    FALSE

\* The loop condition while (m_running) is false.
loopExits ==
    ~m_running

\* while (m_running) is false: the loop ends and the thread function returns.
outputLoop_return ==
    /\ ~terminated /\ m_outputThread = "while" /\ loopExits
    /\ UNCHANGED << isKeyframe, awaitingFirst, trailerWritten, stopSnapshot,
                    streamStop >>
    /\ m_outputThread' = "returned"
    /\ UNCHANGED << m_state, m_running, queuedPacket, reconnectAttempts, m_settings,
                    m_formatContext, m_headerWritten, m_packetQueue, m_stats,
                    terminated, stopPc, writePc, packet, sinkAccepts, submitted,
                    sinkLog, lastResult, session >>
    /\ UNCHANGED << encVars, sceneVars, layerVars, traced, m_codecpar, objectVars >>

\* initializeOutput() returned true: setState(Streaming), reconnectAttempts = 0,
\* and the loop goes on to the packet queue.
outputLoop_connected ==
    /\ ~terminated /\ m_outputThread = "while" /\ m_running
    /\ m_state \in {"Connecting", "Reconnecting"}
    /\ sinkAccepts
    /\ awaitingFirst' = history(TRUE, FALSE)
    /\ UNCHANGED << isKeyframe, trailerWritten, stopSnapshot, streamStop >>
    /\ m_formatContext' = TRUE
    /\ m_headerWritten' = TRUE
    /\ m_state' = "Streaming"
    /\ reconnectAttempts' = 0
    /\ m_outputThread' = "dequeue"
    /\ session' = [session EXCEPT !.accepted = @ + 1, !.retries = 0]
    /\ UNCHANGED << m_running, queuedPacket, m_settings, m_packetQueue, m_stats,
                    terminated, stopPc, writePc, packet, sinkAccepts, submitted,
                    sinkLog, lastResult >>
    /\ UNCHANGED << encVars, sceneVars, layerVars, traced, m_codecpar, objectVars >>

\* The reconnect policy after a failed initializeOutput(): with the counter
\* already incremented to n, Error when maxReconnectAttempts > 0 and
\* n >= maxReconnectAttempts, else Reconnecting.
stateAfterFailure(n) ==
    IF m_settings.maxReconnectAttempts > 0 /\ n >= m_settings.maxReconnectAttempts
    THEN "Error"
    ELSE "Reconnecting"

\* initializeOutput() returned false (the context stays allocated):
\* reconnectAttempts++, then Error and break, or Reconnecting, sleep and continue.
outputLoop_connectFailed ==
    /\ ~terminated /\ m_outputThread = "while" /\ m_running
    /\ m_state \in {"Connecting", "Reconnecting"}
    /\ ~sinkAccepts
    /\ session.refused < MaxRefused
    /\ UNCHANGED << isKeyframe, awaitingFirst, trailerWritten, stopSnapshot,
                    streamStop >>
    /\ m_formatContext' = TRUE
    /\ reconnectAttempts' = reconnectAttempts + 1
    /\ m_state' = stateAfterFailure(reconnectAttempts + 1)
    /\ m_outputThread' = IF stateAfterFailure(reconnectAttempts + 1) = "Error"
                         THEN "returned" ELSE "while"
    /\ session' = [session EXCEPT
                     !.refused = @ + 1,
                     !.retries = IF m_state = "Reconnecting" THEN @ + 1 ELSE @,
                     !.entered = IF m_state # "Reconnecting"
                                    /\ stateAfterFailure(reconnectAttempts + 1) = "Reconnecting"
                                 THEN @ + 1 ELSE @]
    /\ UNCHANGED << m_running, queuedPacket, m_settings, m_headerWritten, m_packetQueue,
                    m_stats, terminated, stopPc, writePc, packet, sinkAccepts,
                    submitted, sinkLog, lastResult >>
    /\ UNCHANGED << encVars, sceneVars, layerVars, traced, m_codecpar, objectVars >>

\* The queue step of the loop: an empty queue waits up to 100 ms and continues,
\* else the front packet is taken.
outputLoop_dequeue ==
    /\ ~terminated
    /\ UNCHANGED << isKeyframe, awaitingFirst, trailerWritten, stopSnapshot,
                    streamStop >>
    /\ \/ m_outputThread = "dequeue"
       \/ /\ m_outputThread = "while" /\ m_running
          /\ m_state \notin {"Connecting", "Reconnecting"}
    /\ IF m_packetQueue = << >>
       THEN /\ m_outputThread' = "while"
            /\ UNCHANGED << queuedPacket, m_packetQueue >>
       ELSE /\ queuedPacket' = Head(m_packetQueue)
            /\ m_packetQueue' = Tail(m_packetQueue)
            /\ m_outputThread' = "send"
    /\ UNCHANGED << m_state, m_running, reconnectAttempts, m_settings, m_formatContext,
                    m_headerWritten, m_stats, terminated, stopPc, writePc, packet,
                    sinkAccepts, submitted, sinkLog, lastResult, session >>
    /\ UNCHANGED << encVars, sceneVars, layerVars, traced, m_codecpar, objectVars >>

\* A transmitter that treats a failed write as fatal.
stateAfterSendFailure_Fatal ==
    "Error"

\* The state outputLoop sets after a failed sendPacket().
stateAfterSendFailure ==
    "Reconnecting"

\* sendPacket(): false without a context or a written header, or when the write
\* fails; true counts the packet.  On false: cleanup(), setState(Reconnecting),
\* reconnectCount++.
send(outcomes) ==
    /\ ~terminated /\ m_outputThread = "send"
    /\ \E written \in outcomes :
         IF written /\ m_formatContext /\ m_headerWritten
         THEN /\ m_stats' = [m_stats EXCEPT !.packetsWritten = @ + 1]
              /\ statWritten("packetsWritten", "m_statsMutex")
              /\ sinkLog' = Append(sinkLog, queuedPacket.packet)
              /\ UNCHANGED << m_state, m_formatContext, m_headerWritten, m_packetQueue,
                              session, trailerWritten >>
         ELSE /\ cleanup
              /\ m_state' = stateAfterSendFailure
              /\ m_stats' = [m_stats EXCEPT !.reconnectCount = @ + 1]
              /\ statWritten("reconnectCount", "m_statsMutex")
              /\ session' = [session EXCEPT
                               !.entered = IF m_state # "Reconnecting"
                                              /\ stateAfterSendFailure = "Reconnecting"
                                           THEN @ + 1 ELSE @]
              /\ UNCHANGED sinkLog
    /\ queuedPacket' = NoPacket
    /\ awaitingFirst' = FALSE
    /\ UNCHANGED << isKeyframe, stopSnapshot, streamStop >>
    /\ m_outputThread' = "while"
    /\ UNCHANGED << m_running, reconnectAttempts, m_settings, terminated, stopPc,
                    writePc, packet, sinkAccepts, submitted, lastResult >>
    /\ UNCHANGED << encVars, sceneVars, layerVars, traced, m_codecpar, itemVars, scenesVars, sourceVars, backendVars,
                    timingVars, captureVars >>

\* ---------------------------------------------------------------------------
\* Producer thread: Impl::writePacket and Impl::queuePacket
\* ---------------------------------------------------------------------------

\* writePacket up to the call of queuePacket: false when not running or Stopped.
\* The caller submits at most limit packets, with isKeyframe drawn from keys.
StreamManager_writePacket(limit, keys) ==
    /\ UNCHANGED << awaitingFirst, trailerWritten, stopSnapshot, streamStop >>
    /\ ~terminated /\ writePc = "idle"
    /\ submitted < limit
    /\ submitted' = submitted + 1
    /\ IF ~m_running \/ m_state = "Stopped"
       THEN /\ lastResult' = "false"
            /\ UNCHANGED << writePc, packet, isKeyframe >>
       ELSE /\ writePc' = "queuePacket"
            /\ packet' = submitted + 1
            /\ \E k \in keys : isKeyframe' = k
            /\ UNCHANGED lastResult
    /\ UNCHANGED << m_state, m_running, m_outputThread, queuedPacket, reconnectAttempts,
                    m_settings, m_formatContext, m_headerWritten, m_packetQueue, m_stats,
                    terminated, stopPc, sinkAccepts, sinkLog, session >>
    /\ UNCHANGED << encVars, sceneVars, layerVars, traced, m_codecpar, objectVars >>

\* A size limit that lets one packet too many in.
queueFull_OffByOne ==
    Len(m_packetQueue) > MAX_QUEUE_SIZE

\* The queue size limit of queuePacket.
queueFull ==
    Len(m_packetQueue) >= MAX_QUEUE_SIZE

\* A queue that takes the new packet at its front.
emplace_front(q, p) ==
    << p >> \o q

\* m_packetQueue.emplace_back(packet, isKeyframe), p the new QueuedPacket
emplace_back(q, p) ==
    Append(q, p)

\* queuePacket, under m_queueMutex: a full queue frees the packet, counts it as
\* dropped and returns false; else the packet goes to the back of the queue.
queuePacket ==
    /\ ~terminated /\ writePc = "queuePacket"
    /\ IF queueFull
       THEN /\ m_stats' = [m_stats EXCEPT !.droppedPackets = @ + 1]
            /\ statWritten("droppedPackets", "m_queueMutex")
            /\ lastResult' = "false"
            /\ UNCHANGED m_packetQueue
       ELSE /\ m_packetQueue' = emplace_back(m_packetQueue,
                                              [packet |-> packet, isKeyframe |-> isKeyframe])
            /\ lastResult' = "true"
            /\ UNCHANGED << m_stats, statsWrites >>
    /\ writePc' = "idle"
    /\ packet' = 0
    /\ isKeyframe' = FALSE
    /\ UNCHANGED << awaitingFirst, trailerWritten, stopSnapshot, streamStop >>
    /\ UNCHANGED << m_state, m_running, m_outputThread, queuedPacket, reconnectAttempts,
                    m_settings, m_formatContext, m_headerWritten, terminated, stopPc,
                    sinkAccepts, submitted, sinkLog, session >>
    /\ UNCHANGED << encVars, sceneVars, layerVars, traced, m_codecpar, itemVars, scenesVars, sourceVars, backendVars,
                    timingVars, captureVars >>

\* ---------------------------------------------------------------------------
\* Environment: the ingest endpoint starts or stops accepting connections
\* ---------------------------------------------------------------------------
SinkChanges ==
    /\ ~terminated
    /\ UNCHANGED << isKeyframe, awaitingFirst, trailerWritten, stopSnapshot,
                    streamStop >>
    /\ sinkAccepts' = ~sinkAccepts
    /\ UNCHANGED << m_state, m_running, m_outputThread, queuedPacket, reconnectAttempts,
                    m_settings, m_formatContext, m_headerWritten, m_packetQueue, m_stats,
                    terminated, stopPc, writePc, packet, submitted, sinkLog, lastResult,
                    session >>
    /\ UNCHANGED << encVars, sceneVars, layerVars, traced, m_codecpar, objectVars >>

outputLoop_send ==
    send(BOOLEAN)

outputLoop ==
    \/ outputLoop_return
    \/ outputLoop_connected
    \/ outputLoop_connectFailed
    \/ outputLoop_dequeue
    \/ outputLoop_send

\* The transmitter with every submitted packet flagged a keyframe: the flag is
\* stored with the packet and read by no branch of the transmitter.
Next ==
    \/ StreamManager_configure
    \/ StreamManager_startStream
    \/ StreamManager_startStreamUrl
    \/ StreamManager_stopStream
    \/ stop_join
    \/ outputLoop
    \/ StreamManager_writePacket(MaxPackets, {TRUE})
    \/ queuePacket
    \/ SinkChanges

Spec == Init /\ [][Next]_vars

\* The transmitter fed by an encoder: each submitted packet is a keyframe or not.
NextKey ==
    \/ StreamManager_configure
    \/ StreamManager_startStream
    \/ StreamManager_startStreamUrl
    \/ StreamManager_stopStream
    \/ stop_join
    \/ outputLoop
    \/ StreamManager_writePacket(MaxPackets, BOOLEAN)
    \/ queuePacket
    \/ SinkChanges

SpecKey == InitTraced /\ [][NextKey]_vars

\* Impl::setCodecParameters: false for nullptr; else the parameters are copied,
\* with or without extradata, in place of the ones stored before.
StreamManager_setCodecParameters ==
    /\ ~terminated
    /\ stopPc = "idle"
    /\ \E codecpar \in {"none", "bare", "extradata"} :
         m_codecpar' = IF codecpar = "none" THEN m_codecpar ELSE codecpar
    /\ UNCHANGED << m_state, m_running, m_outputThread, queuedPacket, reconnectAttempts,
                    m_settings, m_formatContext, m_headerWritten, m_packetQueue, m_stats,
                    terminated, stopPc, writePc, packet, isKeyframe, sinkAccepts,
                    submitted, sinkLog, lastResult, session, awaitingFirst,
                    trailerWritten, stopSnapshot, streamStop >>
    /\ UNCHANGED << encVars, sceneVars, layerVars, traced, objectVars >>

\* The transmitter with the codec parameters the encoder hands over, or none.
NextCodec ==
    \/ StreamManager_setCodecParameters
    \/ StreamManager_configure
    \/ StreamManager_startStream
    \/ StreamManager_startStreamUrl
    \/ StreamManager_stopStream
    \/ stop_join
    \/ outputLoop
    \/ StreamManager_writePacket(MaxQueued, {TRUE})
    \/ queuePacket
    \/ SinkChanges

SpecCodec == Init /\ [][NextCodec]_vars

\* The output thread is a running thread: it keeps taking steps.
FairSpec == Spec /\ WF_vars(outputLoop)

\* The transmitter as in Spec, its histories kept.
SpecTraced == InitTraced /\ [][Next]_vars

\* The overflow scenario: a stream is started towards an endpoint that accepts
\* and whose writes succeed, the producer submits up to MaxBurst packets and the
\* output thread gets to take at most MaxSends packets from the queue.
outputLoop_dequeueSlow ==
    /\ m_stats.packetsWritten + m_stats.reconnectCount < MaxSends
    /\ outputLoop_dequeue

\* Every write to the sink succeeds.
outputLoop_sendTx ==
    send({TRUE})

\* The producer submits once the stream is started (every packet a keyframe:
\* queuePacket does not look at the flag).
StreamManager_writePacketTx ==
    /\ m_running
    /\ StreamManager_writePacket(MaxBurst, {TRUE})

NextTx ==
    \/ StreamManager_startStreamUrl
    \/ outputLoop_connected
    \/ outputLoop_dequeueSlow
    \/ outputLoop_sendTx
    \/ StreamManager_writePacketTx
    \/ queuePacket

SpecTx == Init /\ [][NextTx]_vars

\* ---------------------------------------------------------------------------
\* Encoder: EncoderManager::Impl.  A frame is named by its index among the
\* frames pushed to a running encoder.
\* ---------------------------------------------------------------------------

\* History of one encoder run: pushFrame calls that queued or dropped their frame
\* since the encoder was started, frames the worker took from the queue,
\* framesDropped at the start, and the packets flush() delivered when the run was
\* stopped; total counts the frames of all runs.
NewRun ==
    [pushed |-> 0, dequeued |-> 0, framesDropped0 |-> enc_stats.framesDropped,
     total |-> encRun.total, flushed |-> 0]

\* EncoderManager::setMaxQueueSize, called while the encoder is stopped.
EncoderManager_setMaxQueueSize ==
    /\ ~faulted
    /\ UNCHANGED encStop
    /\ encStopPc = "idle" /\ ~enc_running
    /\ \E n \in QueueSizeChoices : m_maxQueueSize' = n
    /\ UNCHANGED << enc_running, m_codecContext, m_encoderThread, queuedFrame, codecHeld,
                    m_frameQueue, enc_stats, encStopPc, pushPc, frame, faulted, encRun >>
    /\ UNCHANGED << streamVars, sceneVars, layerVars, objectVars >>

\* avcodec_find_encoder_by_name(name): the codec, or "none" for a null pointer.
avcodec_find_encoder_by_name(name) ==
    IF name \in registered THEN name ELSE "none"

\* The codec lookup of initializeEncoder: the codec it ends with for the
\* configured type.  h264_nvenc is tried for Auto and NVENC_H264, then, while no
\* codec is found, h264_amf for Auto and AMF_H264, h264_qsv for Auto and QSV_H264,
\* and libx264 for every type.
findCodec(encoderType) ==
    LET nvenc == IF encoderType \in {"Auto", "NVENC_H264"}
                 THEN avcodec_find_encoder_by_name("h264_nvenc") ELSE "none"
        amf   == IF nvenc = "none" /\ encoderType \in {"Auto", "AMF_H264"}
                 THEN avcodec_find_encoder_by_name("h264_amf") ELSE nvenc
        qsv   == IF amf = "none" /\ encoderType \in {"Auto", "QSV_H264"}
                 THEN avcodec_find_encoder_by_name("h264_qsv") ELSE amf
    IN  IF qsv = "none" THEN avcodec_find_encoder_by_name("libx264") ELSE qsv

\* The EncoderType initializeEncoder stores with the name of the codec it found.
typeOf(codec) ==
    CASE codec = "h264_nvenc" -> "NVENC_H264"
      [] codec = "h264_amf"   -> "AMF_H264"
      [] codec = "h264_qsv"   -> "QSV_H264"
      [] codec = "libx264"    -> "X264"

\* Impl::start: nothing when running; initializeEncoder() begins with cleanup(),
\* looks the codec up and stores its name and type, fails without a codec, sets
\* the options of the rate control mode without a test that can fail, and fails
\* when the context, the codec (avcodec_open2), the packet or the scaler cannot
\* be set up (opened is false); when it succeeds the codec context stays
\* allocated, m_running = true and the worker thread starts.
EncoderManager_start ==
    /\ ~faulted
    /\ UNCHANGED << enc_settings, registered >>
    /\ encStopPc = "idle"
    /\ IF enc_running
       THEN UNCHANGED << enc_running, m_codecContext, m_encoderThread, m_frameQueue,
                         codecHeld, encRun, encStop, m_activeEncoderName,
                         m_activeEncoderType >>
       ELSE \E opened \in BOOLEAN :
              LET codec == findCodec(enc_settings.encoderType)
                  initialized == codec # "none" /\ opened
              IN  /\ m_activeEncoderName' =
                        IF codec = "none" THEN m_activeEncoderName ELSE codec
                  /\ m_activeEncoderType' =
                        IF codec = "none" THEN m_activeEncoderType ELSE typeOf(codec)
                  /\ encStop' = NoStops
                  /\ m_frameQueue' = << >>
                  /\ codecHeld' = 0
                  /\ m_codecContext' = initialized
                  /\ enc_running' = initialized
                  /\ m_encoderThread' = IF initialized THEN "while" ELSE m_encoderThread
                  /\ encRun' = IF initialized THEN NewRun ELSE encRun
    /\ UNCHANGED << queuedFrame, m_maxQueueSize, enc_stats, encStopPc, pushPc, frame,
                    faulted >>
    /\ UNCHANGED << streamVars, sceneVars, layerVars, itemVars, scenesVars, sourceVars,
                    sideVars >>

\* Impl::stop, up to the join: nothing when not running, else m_running = false.
EncoderManager_stop ==
    /\ ~faulted
    /\ encStopPc = "idle"
    /\ IF enc_running
       THEN /\ enc_running' = FALSE
            /\ encStopPc' = "join"
       ELSE UNCHANGED << enc_running, encStopPc >>
    /\ encStop' = [encStop EXCEPT !.onStopped = @ \/ ~enc_running]
    /\ UNCHANGED << m_codecContext, m_encoderThread, queuedFrame, codecHeld, m_frameQueue,
                    m_maxQueueSize, enc_stats, pushPc, frame, faulted, encRun >>
    /\ UNCHANGED << streamVars, sceneVars, layerVars, objectVars >>

\* A stop() that calls flush() after cleanup(): flush finds no codec context.
flush_AfterCleanup(context, held) ==
    0

\* Impl::flush: nothing without a codec context; else every packet the codec
\* still holds is received and handed to processPacket (count and callback).
\* The number of packets flush delivers when the codec holds held packets.
flush(context, held) ==
    IF context THEN held ELSE 0

\* Impl::stop, from the join on: flush() drains the packets the codec still
\* holds through processPacket, cleanup() frees the contexts and clears the queue.
encoder_stop_join ==
    /\ ~faulted
    /\ encStop' = [encStop EXCEPT !.emitted = @ + 1]
    /\ encStopPc = "join"
    /\ m_encoderThread \in {"none", "returned"}
    /\ m_encoderThread' = "none"
    /\ enc_stats' = [enc_stats EXCEPT
                        !.framesEncoded = @ + flush(m_codecContext, codecHeld)]
    /\ statWrittenIf(flush(m_codecContext, codecHeld) > 0, "framesEncoded", "m_statsMutex")
    /\ codecHeld' = 0
    /\ m_codecContext' = FALSE
    /\ m_frameQueue' = << >>
    /\ encStopPc' = "idle"
    /\ encRun' = [encRun EXCEPT !.flushed = flush(m_codecContext, codecHeld)]
    /\ UNCHANGED << enc_running, queuedFrame, m_maxQueueSize, pushPc, frame, faulted >>
    /\ UNCHANGED << streamVars, sceneVars, layerVars, itemVars, scenesVars, sourceVars, backendVars,
                    timingVars, captureVars >>

\* A size check that lets one frame too many in.
frameQueueFull_OffByOne ==
    Len(m_frameQueue) > m_maxQueueSize

\* The queue size check of pushFrame, under m_queueMutex.
frameQueueFull ==
    Len(m_frameQueue) >= m_maxQueueSize

\* pushFrame up to the end of the size check: returns when the encoder is not
\* running or has no codec context; a full queue counts the frame as dropped and
\* returns; else the lock is released and the frame goes on to the conversion.
pushFrame(t) ==
    /\ ~faulted
    /\ UNCHANGED encStop
    /\ pushPc[t] = "idle"
    /\ IF ~enc_running \/ ~m_codecContext
       THEN UNCHANGED << enc_stats, pushPc, frame, encRun, statsWrites >>
       ELSE /\ encRun.total < MaxFrames
            /\ IF frameQueueFull
               THEN /\ enc_stats' = [enc_stats EXCEPT !.framesDropped = @ + 1]
                    /\ statWritten("framesDropped", "m_queueMutex")
                    /\ encRun' = [encRun EXCEPT !.pushed = @ + 1, !.total = @ + 1]
                    /\ UNCHANGED << pushPc, frame >>
               ELSE /\ pushPc' = [pushPc EXCEPT ![t] = "convert"]
                    /\ frame' = [frame EXCEPT ![t] = encRun.total + 1]
                    /\ encRun' = [encRun EXCEPT !.total = @ + 1]
                    /\ UNCHANGED << enc_stats, statsWrites >>
    /\ UNCHANGED << enc_running, m_codecContext, m_encoderThread, queuedFrame, codecHeld,
                    m_frameQueue, m_maxQueueSize, encStopPc, faulted >>
    /\ UNCHANGED << streamVars, layerVars, itemVars, scenesVars, sourceVars, backendVars,
                    timingVars, captureVars >>

\* EncoderManager::pushFrame called from a thread other than the render loop.
EncoderManager_pushFrame(t) ==
    /\ pushFrame(t)
    /\ UNCHANGED sceneVars

\* pushFrame from imageToAVFrame on: the conversion reads the codec and scaler
\* contexts (freed by a concurrent stop: the process dies or goes on), then the
\* frame is put at the back of the queue under m_queueMutex.
pushFrame_emplace(t) ==
    /\ ~faulted
    /\ UNCHANGED encStop
    /\ pushPc[t] = "convert"
    /\ \E dies \in (IF m_codecContext THEN {FALSE} ELSE BOOLEAN) :
         IF dies
         THEN faulted' = TRUE /\ UNCHANGED << m_frameQueue, encRun >>
         ELSE /\ m_frameQueue' = Append(m_frameQueue, frame[t])
              /\ encRun' = [encRun EXCEPT !.pushed = @ + 1]
              /\ UNCHANGED faulted
    /\ pushPc' = [pushPc EXCEPT ![t] = "idle"]
    /\ frame' = [frame EXCEPT ![t] = 0]
    /\ UNCHANGED << enc_running, m_codecContext, m_encoderThread, queuedFrame, codecHeld,
                    m_maxQueueSize, enc_stats, encStopPc >>
    /\ UNCHANGED << streamVars, sceneVars, layerVars, objectVars >>

\* encodingLoop: while (m_running) is false, the thread function returns.
encodingLoop_return ==
    /\ ~faulted
    /\ UNCHANGED encStop
    /\ m_encoderThread = "while" /\ ~enc_running
    /\ m_encoderThread' = "returned"
    /\ UNCHANGED << enc_running, m_codecContext, queuedFrame, codecHeld, m_frameQueue,
                    m_maxQueueSize, enc_stats, encStopPc, pushPc, frame, faulted, encRun >>
    /\ UNCHANGED << streamVars, sceneVars, layerVars, objectVars >>

\* encodingLoop: the front frame is taken from the queue (an empty queue waits
\* up to 100 ms and continues, which changes nothing).
encodingLoop_dequeue ==
    /\ ~faulted
    /\ UNCHANGED encStop
    /\ m_encoderThread = "while" /\ enc_running
    /\ m_frameQueue # << >>
    /\ queuedFrame' = Head(m_frameQueue)
    /\ m_frameQueue' = Tail(m_frameQueue)
    /\ m_encoderThread' = "encode"
    /\ encRun' = [encRun EXCEPT !.dequeued = @ + 1]
    /\ UNCHANGED << enc_running, m_codecContext, codecHeld, m_maxQueueSize, enc_stats,
                    encStopPc, pushPc, frame, faulted >>
    /\ UNCHANGED << streamVars, sceneVars, layerVars, objectVars >>

\* encodeFrame: the frame is sent to the codec, which returns some of the packets
\* it holds; processPacket counts each as framesEncoded.
encodingLoop_encodeFrame ==
    /\ ~faulted
    /\ UNCHANGED encStop
    /\ m_encoderThread = "encode"
    /\ \E n \in 0 .. (codecHeld + 1) :
         /\ codecHeld' = codecHeld + 1 - n
         /\ enc_stats' = [enc_stats EXCEPT !.framesEncoded = @ + n]
         /\ statWrittenIf(n > 0, "framesEncoded", "m_statsMutex")
    /\ queuedFrame' = 0
    /\ m_encoderThread' = "while"
    /\ UNCHANGED << enc_running, m_codecContext, m_frameQueue, m_maxQueueSize, encStopPc,
                    pushPc, frame, faulted, encRun >>
    /\ UNCHANGED << streamVars, sceneVars, layerVars, itemVars, scenesVars, sourceVars, backendVars,
                    timingVars, captureVars >>

encodingLoop ==
    \/ encodingLoop_return
    \/ encodingLoop_dequeue
    \/ encodingLoop_encodeFrame

EncoderControl ==
    \/ EncoderManager_setMaxQueueSize
    \/ EncoderManager_start
    \/ EncoderManager_stop
    \/ encoder_stop_join

\* Frames are pushed from any of the threads in Pushers.
NextEnc ==
    \/ EncoderControl
    \/ encodingLoop
    \/ \E t \in Pushers : EncoderManager_pushFrame(t)
    \/ \E t \in Pushers : pushFrame_emplace(t)

SpecEnc == Init /\ [][NextEnc]_vars

\* Frames are pushed from one thread (the render loop).
NextEncSeq ==
    \/ EncoderControl
    \/ encodingLoop
    \/ EncoderManager_pushFrame(1)
    \/ pushFrame_emplace(1)

SpecEncSeq == Init /\ [][NextEncSeq]_vars

\* ---------------------------------------------------------------------------
\* SceneManager: the render loop.  The render timer, startRenderLoop,
\* stopRenderLoop, setEncoderOutputEnabled and EncoderManager start and stop all
\* run on the main thread; time is counted in timer intervals.
\* ---------------------------------------------------------------------------

\* The main thread is not inside a render tick.
MainThreadIdle ==
    pushPc[1] = "idle"

\* SceneManager::startRenderLoop: nothing when running; else the timer starts,
\* m_frameTimer.restart() and m_lastFrameTime = 0.
SceneManager_startRenderLoop ==
    /\ MainThreadIdle
    /\ IF m_renderLoopRunning
       THEN UNCHANGED << m_renderLoopRunning, m_frameTimer, m_lastFrameTime,
                         renderStop >>
       ELSE /\ m_renderLoopRunning' = TRUE
            /\ m_frameTimer' = 0
            /\ m_lastFrameTime' = 0
            /\ renderStop' = NoStops
    /\ UNCHANGED << m_encoderOutputEnabled, lastPts, ticksEnabled, previewVars >>
    /\ UNCHANGED << streamVars, encVars, layerVars, objectVars >>

\* SceneManager::stopRenderLoop: nothing when not running; else the timer stops,
\* m_renderLoopRunning = false and renderLoopStopped is emitted.
SceneManager_stopRenderLoop ==
    /\ MainThreadIdle
    /\ IF ~m_renderLoopRunning
       THEN /\ renderStop' = [renderStop EXCEPT !.onStopped = TRUE]
            /\ UNCHANGED m_renderLoopRunning
       ELSE /\ m_renderLoopRunning' = FALSE
            /\ renderStop' = [renderStop EXCEPT !.emitted = @ + 1]
    /\ UNCHANGED << m_encoderOutputEnabled, m_frameTimer, m_lastFrameTime, lastPts,
                    ticksEnabled, previewVars >>
    /\ UNCHANGED << streamVars, encVars, layerVars, objectVars >>

\* SceneManager::setEncoderOutputEnabled
SceneManager_setEncoderOutputEnabled ==
    /\ MainThreadIdle
    /\ \E enabled \in BOOLEAN : m_encoderOutputEnabled' = enabled
    /\ UNCHANGED << m_renderLoopRunning, m_frameTimer, m_lastFrameTime, lastPts,
                    ticksEnabled, renderStop, previewVars >>
    /\ UNCHANGED << streamVars, encVars, layerVars, objectVars >>

\* SceneManager::setPreviewCallback, with a callback or an empty std::function.
SceneManager_setPreviewCallback ==
    /\ MainThreadIdle
    /\ \E callback \in BOOLEAN : m_previewCallback' = callback
    /\ UNCHANGED << m_renderLoopRunning, m_encoderOutputEnabled, m_frameTimer,
                    m_lastFrameTime, lastPts, ticksEnabled, renderStop,
                    m_outputResolution, preview >>
    /\ UNCHANGED << streamVars, encVars, layerVars, objectVars >>

\* SceneManager::setOutputResolution
SceneManager_setOutputResolution ==
    /\ MainThreadIdle
    /\ \E size \in Resolutions : m_outputResolution' = size
    /\ UNCHANGED << m_renderLoopRunning, m_encoderOutputEnabled, m_frameTimer,
                    m_lastFrameTime, lastPts, ticksEnabled, renderStop,
                    m_previewCallback, preview >>
    /\ UNCHANGED << streamVars, encVars, layerVars, objectVars >>

\* QImage::isNull of the frame renderFrame() returns: an image of an empty size.
QImage_isNull(size) ==
    size = "0x0"

\* A preview output that is skipped while encoder output is disabled.
outputToPreview_WhenEncoding(image) ==
    IF m_previewCallback /\ ~QImage_isNull(m_outputResolution) /\ m_encoderOutputEnabled
    THEN [calls |-> 1, frame |-> image]
    ELSE NoPreview

\* outputToPreview: the callback is called once with the frame when a callback is
\* set and the frame is not null.  The calls made for the frame of a tick.
outputToPreview(image) ==
    IF m_previewCallback /\ ~QImage_isNull(m_outputResolution)
    THEN [calls |-> 1, frame |-> image]
    ELSE NoPreview

\* A render tick that pushes to the encoder whether output is enabled or not.
encoderOutput_Always ==
    TRUE

\* The test of doRender before outputToEncoder.
encoderOutput ==
    m_encoderOutputEnabled

\* outputToEncoder: pts = m_frameTimer.elapsed() * 1000.
pts(elapsed) ==
    elapsed * 1000

\* onRenderTick, one timer interval after the previous tick or the start of the
\* timer: doRender() stores m_lastFrameTime, renders the frame (named by the time
\* of its tick), hands it to outputToPreview, and with encoder output enabled
\* outputToEncoder(), unless the frame is null, stamps it and calls pushFrame.
SceneManager_onRenderTick ==
    /\ MainThreadIdle /\ m_renderLoopRunning
    /\ m_frameTimer < MaxElapsed /\ ticksEnabled < MaxTicks
    /\ m_frameTimer' = m_frameTimer + 1
    /\ m_lastFrameTime' = m_frameTimer'
    /\ preview' = outputToPreview(m_frameTimer')
    /\ UNCHANGED << m_previewCallback, m_outputResolution >>
    /\ IF encoderOutput /\ ~QImage_isNull(m_outputResolution)
       THEN /\ lastPts' = pts(m_frameTimer')
            /\ ticksEnabled' = IF m_encoderOutputEnabled THEN ticksEnabled + 1
                                                         ELSE ticksEnabled
            /\ pushFrame(1)
       ELSE UNCHANGED << streamVars, encVars, layerVars, objectVars, lastPts,
                         ticksEnabled >>
    /\ UNCHANGED << m_renderLoopRunning, m_encoderOutputEnabled, renderStop >>

SceneControl ==
    \/ SceneManager_startRenderLoop
    \/ SceneManager_stopRenderLoop
    \/ SceneManager_setEncoderOutputEnabled

\* The render pipeline: the scene manager and the encoder, frames pushed by the
\* render loop only; the main thread does one thing at a time.
NextRender ==
    \/ SceneControl
    \/ SceneManager_onRenderTick
    \/ pushFrame_emplace(1)
    \/ MainThreadIdle /\ EncoderControl
    \/ encodingLoop

SpecRender == Init /\ [][NextRender]_vars

\* ===========================================================================
\* Claims about the transmitter
\* ===========================================================================

\* The edges of the documented state machine (a change to Stopped is allowed
\* from any state when stopStream makes it).
DocumentedEdges ==
    { <<"Stopped", "Connecting">>, <<"Connecting", "Streaming">>,
      <<"Connecting", "Reconnecting">>, <<"Reconnecting", "Connecting">>,
      <<"Reconnecting", "Streaming">>, <<"Streaming", "Reconnecting">>,
      <<"Connecting", "Error">> }

\* C1: every change of the transmitter state follows an edge of the documented
\* state machine, or is a change to Stopped made by stopStream.
C1_OnlyDocumentedEdges ==
    [][ m_state' # m_state =>
          \/ <<m_state, m_state'>> \in DocumentedEdges
          \/ m_state' = "Stopped" /\ stopPc = "join" ]_vars

\* C2: after a failed connection attempt the transmitter enters Reconnecting when
\* max_attempts = 0 or the reconnection attempts made since the last successful
\* connect (the attempts made from the Reconnecting state, the failed one
\* included) are below max_attempts, and Error otherwise.
C2_RetryWhileBudgetLeft ==
    [][ session'.refused = session.refused + 1 =>
          IF \/ m_settings.maxReconnectAttempts = 0
             \/ session'.retries < m_settings.maxReconnectAttempts
          THEN m_state' = "Reconnecting"
          ELSE m_state' = "Error" ]_vars

\* C3: once the state is Error it stays Error until stopStream changes it to
\* Stopped; startStream does not leave Error.
C3_ErrorIsTerminal ==
    [][ m_state = "Error" =>
          \/ m_state' = "Error"
          \/ m_state' = "Stopped" /\ stopPc = "join" ]_vars

\* C4: when the first N connection attempts after startStream are refused and the
\* next is accepted, the transmitter has entered Reconnecting once per refused
\* attempt and is in Connecting when the accepted attempt is made.
C4_ReconnectTrajectory ==
    [][ (session.accepted = 0 /\ session'.accepted = 1) =>
          /\ m_state = "Connecting"
          /\ session.entered = session.refused ]_vars

\* C5: when N connection attempts are refused and the next is accepted,
\* reconnectCount has grown by N once Streaming is reached.
C5_ReconnectCountIsRefused ==
    (m_state = "Streaming" /\ session.accepted = 1) =>
        m_stats.reconnectCount - session.reconnectCount0 = session.refused

\* C6: a failed write in Streaming closes the connection and enters Reconnecting,
\* and from Reconnecting after such a failure the transmitter is Streaming again
\* unless the endpoint refuses or the caller stops or restarts the stream.
C6_RecoversAfterWriteFailure ==
    /\ [][ (m_outputThread = "send" /\ m_outputThread' = "while"
            /\ m_stats'.packetsWritten = m_stats.packetsWritten) =>
              /\ m_state' = "Reconnecting"
              /\ ~m_formatContext' /\ ~m_headerWritten' ]_vars
    /\ (m_state = "Reconnecting" /\ session.accepted >= 1)
          ~> (m_state = "Streaming" \/ ~sinkAccepts \/ ~m_running \/ terminated)

\* C6 witness: Streaming again after a write failure of this stream.
C6_Witness ==
    /\ m_state = "Streaming" /\ session.accepted >= 2
    /\ m_stats.reconnectCount > session.reconnectCount0

\* C7: the queue never holds more than MAX_QUEUE_SIZE packets; a packet submitted
\* to a full queue is rejected, the queue is unchanged and droppedPackets grows
\* by exactly one.
C7_QueueBoundedDropNewest ==
    /\ [](Len(m_packetQueue) <= MAX_QUEUE_SIZE)
    /\ [][ (writePc = "queuePacket" /\ writePc' = "idle"
            /\ Len(m_packetQueue) = MAX_QUEUE_SIZE) =>
              /\ lastResult' = "false"
              /\ m_packetQueue' = m_packetQueue
              /\ m_stats'.droppedPackets = m_stats.droppedPackets + 1 ]_vars

\* C7 witness: an incoming packet was dropped at a full queue.
C7_Witness ==
    /\ Len(m_packetQueue) = MAX_QUEUE_SIZE
    /\ m_stats.droppedPackets = 1 /\ lastResult = "false" /\ writePc = "idle"

C11_FirstWrittenIsKeyframe ==
    [][ (awaitingFirst /\ m_stats'.packetsWritten = m_stats.packetsWritten + 1) =>
          queuedPacket.isKeyframe ]_vars

\* C16: when stopStream closes a connection whose header was written, the
\* trailer is written before the context is freed.
C16_TrailerOnStop ==
    [][ (stopPc = "join" /\ stopPc' = "idle" /\ m_formatContext /\ m_headerWritten) =>
          trailerWritten' ]_vars

\* C17: when stopStream closes a Streaming connection (no write failed), every
\* packet that was in the queue when stopStream was called has been written to
\* the sink.
C17_StopFlushesQueue ==
    [][ (stopPc = "join" /\ stopPc' = "idle" /\ m_state = "Streaming") =>
          \A i \in DOMAIN stopSnapshot :
             \E j \in DOMAIN sinkLog : sinkLog[j] = stopSnapshot[i].packet ]_vars

\* C25: the transmitter does not reach Streaming unless codec parameters with
\* extradata were supplied before the stream header is written.
C25_NoStreamingWithoutExtradata ==
    [][ (m_state # "Streaming" /\ m_state' = "Streaming") => m_codecpar = "extradata" ]_vars

\* C26: every change of the transmitter's state into Stopped or into Error emits
\* the disconnected signal.
C26_TerminalEmitsDisconnected ==
    [][ (m_state' # m_state /\ m_state' \in {"Stopped", "Error"}) =>
          streamStop'.emitted = streamStop.emitted + 1 ]_vars

\* ===========================================================================
\* Claims about the encoder queue
\* ===========================================================================

\* The frames first .. last, in order.
FrameRange(first, last) ==
    [i \in 1 .. (last - first + 1) |-> first + i - 1]

\* k frames were pushed from one thread to the running encoder, the worker has
\* taken none of them, and k exceeds the queue size.
PushedMoreThanFits ==
    /\ enc_running /\ encStopPc = "idle"
    /\ \A t \in Pushers : pushPc[t] = "idle"
    /\ encRun.dequeued = 0
    /\ encRun.pushed > m_maxQueueSize

C9_FrameQueueBounded ==
    Len(m_frameQueue) <= m_maxQueueSize

\* ===========================================================================
\* Claims about the render pipeline
\* ===========================================================================

\* C12: the timestamps of the frames the render loop pushes to the encoder are
\* strictly increasing: each pushed frame has a pts above that of the frame
\* pushed before it.
C12_RenderPtsIncreasing ==
    [][ (ticksEnabled' = ticksEnabled + 1 /\ lastPts # -1) => lastPts' > lastPts ]_vars

\* C13: framesEncoded + framesDropped never exceeds the number of render ticks
\* that ran with encoder output enabled.
C13_AccountedAtMostTicks ==
    enc_stats.framesEncoded + enc_stats.framesDropped <= ticksEnabled

\* C13 witness: frames were encoded and dropped, and every tick is accounted for.
C13_Witness ==
    /\ enc_stats.framesEncoded >= 1 /\ enc_stats.framesDropped >= 1
    /\ enc_stats.framesEncoded + enc_stats.framesDropped = ticksEnabled

\* ===========================================================================
\* Claims about stopping the stages
\* ===========================================================================

\* The three stages started and stopped, no media flowing.
NextStop ==
    \/ StreamManager_startStreamUrl
    \/ outputLoop_connected
    \/ outputLoop_return
    \/ StreamManager_stopStream
    \/ stop_join
    \/ EncoderManager_start
    \/ EncoderManager_stop
    \/ encoder_stop_join
    \/ encodingLoop_return
    \/ SceneManager_startRenderLoop
    \/ SceneManager_stopRenderLoop

SpecStop == InitTraced /\ [][NextStop]_vars

\* C14: a stop call on a stage that is already stopped changes no state and
\* emits no signal: the step that first records such a call (stopStream on a
\* Stopped transmitter, stop on an encoder that is not running, stopRenderLoop on
\* a stopped loop) changes nothing else.
C14_StopIdempotent ==
    [][ /\ (~streamStop.onStopped /\ streamStop'.onStopped) =>
             /\ streamStop'.emitted = streamStop.emitted
             /\ UNCHANGED << m_state, m_running, m_outputThread, queuedPacket,
                             reconnectAttempts, m_settings, m_formatContext,
                             m_headerWritten, m_packetQueue, m_stats, terminated, stopPc,
                             writePc, packet, isKeyframe, sinkAccepts, submitted, sinkLog,
                             lastResult, session, awaitingFirst, trailerWritten,
                             stopSnapshot, traced, encVars, sceneVars >>
        /\ (~encStop.onStopped /\ encStop'.onStopped) =>
             /\ encStop'.emitted = encStop.emitted
             /\ UNCHANGED << enc_running, m_codecContext, m_encoderThread, queuedFrame,
                             codecHeld, m_frameQueue, m_maxQueueSize, enc_stats, encStopPc,
                             pushPc, frame, faulted, encRun, streamVars, sceneVars >>
        /\ (~renderStop.onStopped /\ renderStop'.onStopped) =>
             /\ renderStop'.emitted = renderStop.emitted
             /\ UNCHANGED << m_renderLoopRunning, m_encoderOutputEnabled, m_frameTimer,
                             m_lastFrameTime, lastPts, ticksEnabled, previewVars,
                             streamVars, encVars >>
      ]_vars

\* C14 witness: each stage was started, stopped (its stop signal emitted once)
\* and then asked to stop again.
C14_Witness ==
    /\ streamStop = [onStopped |-> TRUE, emitted |-> 1]
    /\ encStop = [onStopped |-> TRUE, emitted |-> 1]
    /\ renderStop = [onStopped |-> TRUE, emitted |-> 1]

\* C18: EncoderManager::stop() joins the worker with the running flag cleared,
\* then flush() delivers every packet the codec still holds, then the encoder
\* resources are released; a packet is delivered (processPacket: count and
\* callback) only by the worker before it is joined or by the flush inside
\* stop(), never after stop() has returned.
C18_StopJoinsFlushesReleases ==
    [][ /\ (encStopPc = "join" /\ encStopPc' = "idle") =>
             /\ ~enc_running /\ m_encoderThread \in {"none", "returned"}
             /\ enc_stats'.framesEncoded = enc_stats.framesEncoded + codecHeld
             /\ codecHeld' = 0 /\ ~m_codecContext' /\ m_encoderThread' = "none"
        /\ (enc_stats'.framesEncoded # enc_stats.framesEncoded) =>
             \/ m_encoderThread = "encode"
             \/ encStopPc = "join" /\ encStopPc' = "idle"
      ]_vars

\* C18 witness: stop() has returned and its flush delivered a packet.
C18_Witness ==
    /\ encStopPc = "idle" /\ ~enc_running /\ m_encoderThread = "none"
    /\ ~m_codecContext /\ encRun.flushed >= 1

\* The encoder has not been used: its state is the one after construction.
EncoderAtRest ==
    /\ ~enc_running /\ ~m_codecContext /\ m_encoderThread = "none"
    /\ m_maxQueueSize = DefaultMaxQueueSize /\ encRun.total = 0
    /\ encStop = NoStops /\ encStopPc = "idle" /\ ~faulted
    /\ m_activeEncoderName = ""

\* The transmitter has not been used: its state is the one after construction.
StreamAtRest ==
    /\ m_state = "Stopped" /\ ~m_running /\ m_outputThread = "none"
    /\ m_settings = [url |-> "", maxReconnectAttempts |-> DefaultMaxReconnectAttempts]
    /\ submitted = 0 /\ sinkAccepts /\ streamStop = NoStops /\ stopPc = "idle"
    /\ session = [refused |-> 0, accepted |-> 0, retries |-> 0, entered |-> 0,
                  reconnectCount0 |-> 0]
    /\ m_packetQueue = << >> /\ sinkLog = << >> /\ lastResult = "none"
    /\ reconnectAttempts = 0 /\ writePc = "idle" /\ ~terminated

\* The transmitter with at most MaxQueued packets submitted.
NextStreamCancel ==
    \/ StreamManager_configure
    \/ StreamManager_startStreamUrl
    \/ StreamManager_stopStream
    \/ stop_join
    \/ outputLoop
    \/ StreamManager_writePacket(MaxQueued, {TRUE})
    \/ queuePacket
    \/ SinkChanges

\* The transmitter and the encoder, each exercised with the other at rest (the
\* two share no state), with threads that keep running: the workers take their
\* steps and a join returns once the thread function has returned.
NextCancel ==
    \/ EncoderAtRest /\ NextStreamCancel
    \/ StreamAtRest /\ NextEnc

SpecCancel ==
    /\ Init /\ [][NextCancel]_vars
    /\ WF_vars(outputLoop) /\ WF_vars(stop_join)
    /\ WF_vars(encodingLoop) /\ WF_vars(encoder_stop_join)

\* C15: stopStream() and EncoderManager::stop() return from every state they are
\* called in: once stop has cleared the running flag and waits in the join, the
\* worker exits, is joined, and stop returns with the stage stopped.
C15_StopReturns ==
    /\ (stopPc = "join") ~>
          (stopPc = "idle" /\ m_outputThread = "none" /\ m_state = "Stopped")
    /\ (encStopPc = "join") ~>
          (encStopPc = "idle" /\ m_encoderThread = "none" /\ ~enc_running)

\* C15 witness: stopStream has returned from a transmitter that was stopped
\* after a refused connection attempt with a packet in its queue.
C15_Witness ==
    /\ stopPc = "idle" /\ m_state = "Stopped" /\ m_outputThread = "none"
    /\ session.refused >= 1 /\ submitted >= 1

\* ===========================================================================
\* Scene: the layer list, edited by the control thread, drawn by the renderer
\* ===========================================================================

\* The set of elements of a sequence.
Range(s) == { s[i] : i \in 1 .. Len(s) }

\* QList::indexOf, 0-based; -1 when absent.
indexOf(s, x) ==
    IF x \in Range(s)
    THEN CHOOSE i \in 0 .. Len(s) - 1 : s[i + 1] = x /\ \A j \in 0 .. i - 1 : s[j + 1] # x
    ELSE -1

\* QList::removeAt(index), 0-based.
removeAt(s, index) ==
    [ i \in 1 .. Len(s) - 1 |-> IF i <= index THEN s[i] ELSE s[i + 1] ]

\* QList::insert(index, x), 0-based.
insert(s, index, x) ==
    [ i \in 1 .. Len(s) + 1 |->
        IF i <= index THEN s[i] ELSE IF i = index + 1 THEN x ELSE s[i - 1] ]

\* A move that exchanges the elements at from and to.
move_Swap(s, from, to) ==
    [ i \in 1 .. Len(s) |->
        IF i = from + 1 THEN s[to + 1] ELSE IF i = to + 1 THEN s[from + 1] ELSE s[i] ]

\* QList::move(from, to), 0-based: the element at from is taken out and put at to.
move(s, from, to) ==
    insert(removeAt(s, from), to, s[from + 1])

\* The scene operations the control thread calls, with their arguments.
Calls ==
    { [op |-> o, item |-> i, from |-> 0, to |-> 0] :
        o \in {"addItem", "removeItem", "bringToFront", "sendToBack"},
        i \in 0 .. MaxItems }
    \cup { [op |-> "moveItem", item |-> 0, from |-> f, to |-> t] :
             f \in 0 .. MaxItems - 1, t \in 0 .. MaxItems - 1 }
    \cup { [op |-> "clear", item |-> 0, from |-> 0, to |-> 0] }

\* The control thread enters a scene operation.
Scene_call ==
    /\ call = NoCall
    /\ \E c \in Calls : call' = c
    /\ ret' = NoRet
    /\ UNCHANGED << m_items, m_visible, m_mutex, renderPc, it, pass, orders >>
    /\ UNCHANGED << streamVars, encVars, sceneVars, objectVars >>

\* A scene operation that takes the lock while the lock is held by another thread.
QMutexLocker_NoWait ==
    TRUE

\* QMutexLocker lock(&m_mutex) returns: no other thread holds the mutex.
QMutexLocker ==
    m_mutex = "none"

\* The control thread's critical section leaves m_items as items and the
\* operation returns; the lock is released before the signals are emitted.
edited(items, result) ==
    /\ m_items' = items
    /\ ret' = [op |-> call.op, value |-> result]
    /\ orders' = IF renderPc = "idle" THEN orders ELSE orders \cup {items}
    /\ call' = NoCall
    /\ UNCHANGED << m_visible, m_mutex, renderPc, it, pass >>
    /\ UNCHANGED << streamVars, encVars, sceneVars, objectVars >>

\* An addItem that appends the item whether the list holds it or not.
alreadyAdded_Never(items, item) ==
    FALSE

\* The test "Check if already added" of addItem: m_items.contains(item).
alreadyAdded(items, item) ==
    item \in Range(items)

\* Scene::addItem(SceneItem*): -1 for nullptr; the index of an item already in
\* the list; else the item is appended and its index returned.
Scene_addItem ==
    /\ call.op = "addItem"
    /\ IF call.item = 0
       THEN edited(m_items, -1)
       ELSE /\ QMutexLocker
            /\ IF alreadyAdded(m_items, call.item)
               THEN edited(m_items, indexOf(m_items, call.item))
               ELSE edited(Append(m_items, call.item), Len(m_items))

\* Scene::removeItem(SceneItem*): false for nullptr or an item not in the list;
\* else removeAt(index), and the item is left to deleteLater().
Scene_removeItem ==
    /\ call.op = "removeItem"
    /\ IF call.item = 0
       THEN edited(m_items, 0)
       ELSE /\ QMutexLocker
            /\ IF indexOf(m_items, call.item) < 0
               THEN edited(m_items, 0)
               ELSE edited(removeAt(m_items, indexOf(m_items, call.item)), 1)

\* Scene::clear
Scene_clear ==
    /\ call.op = "clear"
    /\ QMutexLocker
    /\ edited(<< >>, 0)

\* Scene::moveItem(from, to): false when an index is out of range or from == to.
Scene_moveItem ==
    /\ call.op = "moveItem"
    /\ QMutexLocker
    /\ IF \/ call.from < 0 \/ call.from >= Len(m_items)
          \/ call.to < 0 \/ call.to >= Len(m_items)
          \/ call.from = call.to
       THEN edited(m_items, 0)
       ELSE edited(move(m_items, call.from, call.to), 1)

\* Scene::bringToFront: the item goes to the end of the list (the top).
Scene_bringToFront ==
    /\ call.op = "bringToFront"
    /\ QMutexLocker
    /\ LET index == indexOf(m_items, call.item) IN
         IF index >= 0 /\ index < Len(m_items) - 1
         THEN edited(move(m_items, index, Len(m_items) - 1), 0)
         ELSE edited(m_items, 0)

\* Scene::sendToBack: the item goes to the head of the list (the bottom).
Scene_sendToBack ==
    /\ call.op = "sendToBack"
    /\ QMutexLocker
    /\ LET index == indexOf(m_items, call.item) IN
         IF index > 0
         THEN edited(move(m_items, index, 0), 0)
         ELSE edited(m_items, 0)

\* SceneItem::setVisible, which takes no lock.
SceneItem_setVisible ==
    /\ call = NoCall
    /\ \E item \in Items, visible \in BOOLEAN :
         /\ (item \in m_visible) # visible
         /\ m_visible' = IF visible THEN m_visible \cup {item} ELSE m_visible \ {item}
    /\ UNCHANGED << m_items, m_mutex, call, renderPc, it, pass, orders, ret >>
    /\ UNCHANGED << streamVars, encVars, sceneVars, objectVars >>

\* Scene::render(QPainter*): the lock is taken and the loop over m_items begins.
render_lock ==
    /\ renderPc = "idle"
    /\ QMutexLocker
    /\ m_mutex' = "render"
    /\ renderPc' = "loop"
    /\ it' = 0
    /\ pass' = << >>
    /\ orders' = {m_items}
    /\ UNCHANGED << m_items, m_visible, call, ret >>
    /\ UNCHANGED << streamVars, encVars, sceneVars, objectVars >>

\* The loop reaches the next item: if (item->isVisible()) item->render(painter),
\* where SceneItem::render and currentFrame() test m_visible again; a hidden item
\* is passed over.
render_item ==
    /\ renderPc = "loop"
    /\ it < Len(m_items)
    /\ IF m_items[it + 1] \in m_visible
       THEN /\ renderPc' = "capture"
            /\ UNCHANGED << it, pass >>
       ELSE /\ pass' = Append(pass, [item |-> m_items[it + 1], drawn |-> FALSE])
            /\ it' = it + 1
            /\ UNCHANGED renderPc
    /\ UNCHANGED << m_items, m_visible, m_mutex, call, orders, ret >>
    /\ UNCHANGED << streamVars, encVars, sceneVars, objectVars >>

\* m_source->captureVideoFrame() returns, with a frame or with none; a frame is
\* drawn, and the loop goes on to the next item.
render_capture ==
    /\ renderPc = "capture"
    /\ \E isNull \in BOOLEAN :
         pass' = Append(pass, [item |-> IF it < Len(m_items) THEN m_items[it + 1] ELSE 0,
                               drawn |-> ~isNull])
    /\ it' = it + 1
    /\ renderPc' = "loop"
    /\ UNCHANGED << m_items, m_visible, m_mutex, call, orders, ret >>
    /\ UNCHANGED << streamVars, encVars, sceneVars, objectVars >>

\* The loop is over: render returns and the QMutexLocker releases the lock.
render_return ==
    /\ renderPc = "loop"
    /\ it >= Len(m_items)
    /\ m_mutex' = "none"
    /\ renderPc' = "idle"
    /\ it' = 0
    /\ pass' = << >>
    /\ orders' = {}
    /\ UNCHANGED << m_items, m_visible, call, ret >>
    /\ UNCHANGED << streamVars, encVars, sceneVars, objectVars >>

render ==
    \/ render_lock
    \/ render_item
    \/ render_capture
    \/ render_return

\* A scene drawn by the render thread while the control thread edits it.
NextScene ==
    \/ Scene_call
    \/ Scene_addItem
    \/ Scene_removeItem
    \/ Scene_clear
    \/ Scene_moveItem
    \/ Scene_bringToFront
    \/ Scene_sendToBack
    \/ SceneItem_setVisible
    \/ render

SpecScene == Init /\ [][NextScene]_vars

\* The layers a finished pass visited, in the order of the visits.
visited == [ i \in 1 .. Len(pass) |-> pass[i].item ]

\* C19: the render pass does not hold the scene mutex while a source's
\* captureVideoFrame() is being called.
C19_NoLockAcrossCapture ==
    renderPc = "capture" => m_mutex # "render"

\* C20: a render pass that runs while the control thread adds, removes and moves
\* items visits the layers in the order of the layer list as it was at one
\* instant since the pass began: no layer twice, none that was in no list since
\* the pass began, and only layers it visited are drawn.
C20_PassDrawsOneOrdering ==
    [][ (renderPc = "loop" /\ renderPc' = "idle") =>
          /\ \E o \in orders : visited = o
          /\ \A i, j \in 1 .. Len(pass) : i # j => pass[i].item # pass[j].item
          /\ \A i \in 1 .. Len(pass) : \E o \in orders : pass[i].item \in Range(o)
      ]_vars

\* C23: no layer appears twice in the list of a scene, and addItem of an item the
\* scene already holds returns the item's index and leaves the list as it was.
C23_NoLayerTwice ==
    /\ [](\A i, j \in 1 .. Len(m_items) : i # j => m_items[i] # m_items[j])
    /\ [][ (call.op = "addItem" /\ call' = NoCall /\ call.item \in Range(m_items)) =>
             /\ m_items' = m_items
             /\ ret'.value = indexOf(m_items, call.item) ]_vars

\* C23 witness: addItem of the bottom layer of a scene of two or more layers has
\* returned index 0.
C23_Witness ==
    /\ ret = [op |-> "addItem", value |-> 0]
    /\ Len(m_items) >= 2

\* A pass has visited two layers and drawn them, and is about to return, while
\* the control thread waits for the lock inside moveItem.
C20_Witness ==
    /\ renderPc = "loop" /\ it = Len(m_items) /\ Len(pass) >= 2
    /\ \A i \in 1 .. Len(pass) : pass[i].drawn
    /\ call.op = "moveItem" /\ call.from # call.to /\ call.to < Len(m_items)
    /\ call.from < Len(m_items)

\* ===========================================================================
\* SceneItem: the transform of a layer and its lock
\* ===========================================================================

\* Positions, sizes and rotations a caller passes.
Coords == 0 .. MaxCoord

\* Opacities a caller passes, in percent.
Opacities == {-50, 0, 50, 100, 150}

\* qBound(min, value, max)
qBound(min, value, max) ==
    IF value < min THEN min ELSE IF value > max THEN max ELSE value

\* SceneItem::setTransform
SceneItem_setTransform ==
    /\ \E p \in Coords, z \in Coords, r \in Coords, o \in Opacities :
         m_transform' = [position |-> p, size |-> z, rotation |-> r, opacity |-> o]
    /\ UNCHANGED << pipelineVars, scenesVars, sourceVars, m_locked, backendVars, sideVars >>

\* SceneItem::setPosition: the position is assigned when it differs.
SceneItem_setPosition ==
    /\ \E pos \in Coords :
         m_transform' = IF m_transform.position # pos
                        THEN [m_transform EXCEPT !.position = pos] ELSE m_transform
    /\ UNCHANGED << pipelineVars, scenesVars, sourceVars, m_locked, backendVars, sideVars >>

\* SceneItem::setSize
SceneItem_setSize ==
    /\ \E size \in Coords :
         m_transform' = IF m_transform.size # size
                        THEN [m_transform EXCEPT !.size = size] ELSE m_transform
    /\ UNCHANGED << pipelineVars, scenesVars, sourceVars, m_locked, backendVars, sideVars >>

\* SceneItem::setRotation
SceneItem_setRotation ==
    /\ \E degrees \in Coords :
         m_transform' = IF m_transform.rotation # degrees
                        THEN [m_transform EXCEPT !.rotation = degrees] ELSE m_transform
    /\ UNCHANGED << pipelineVars, scenesVars, sourceVars, m_locked, backendVars, sideVars >>

\* SceneItem::setOpacity: the opacity is bounded to 0 .. 1 first.
SceneItem_setOpacity ==
    /\ \E opacity \in Opacities :
         m_transform' = IF m_transform.opacity # qBound(0, opacity, 100)
                        THEN [m_transform EXCEPT !.opacity = qBound(0, opacity, 100)]
                        ELSE m_transform
    /\ UNCHANGED << pipelineVars, scenesVars, sourceVars, m_locked, backendVars, sideVars >>

\* SceneItem::setLocked
SceneItem_setLocked ==
    /\ \E locked \in BOOLEAN : m_locked' = locked
    /\ UNCHANGED m_transform
    /\ UNCHANGED << pipelineVars, scenesVars, sourceVars, backendVars, sideVars >>

\* The public interface of one scene item.
NextItem ==
    \/ SceneItem_setTransform
    \/ SceneItem_setPosition
    \/ SceneItem_setSize
    \/ SceneItem_setRotation
    \/ SceneItem_setOpacity
    \/ SceneItem_setLocked

SpecItem == Init /\ [][NextItem]_vars

\* C21: while a layer is locked, setTransform, setPosition, setSize, setRotation
\* and setOpacity leave its transform unchanged.
C21_LockedTransformUnchanged ==
    [][ m_locked => m_transform' = m_transform ]_vars

\* ===========================================================================
\* SceneManager: the list of scenes
\* ===========================================================================

\* The Scene pointers a caller may pass: nullptr, the scenes constructed so far
\* (removed ones included).
ScenePointers == 0 .. MaxScenes

\* SceneManager::createScene: a new Scene is appended to m_scenes.
SceneManager_createScene ==
    /\ created < MaxScenes
    /\ created' = created + 1
    /\ m_scenes' = Append(m_scenes, created')
    /\ sceneRet' = [op |-> "createScene", scene |-> created', result |-> TRUE]
    /\ UNCHANGED m_activeScene
    /\ UNCHANGED << pipelineVars, itemVars, sourceVars, backendVars, sideVars >>

\* A removeScene that removes the last scene of the manager.
lastScene_Never ==
    FALSE

\* The test "Don't remove the last scene" of removeScene.
lastScene ==
    Len(m_scenes) <= 1

\* SceneManager::removeScene: false for nullptr, for a scene not in the list and
\* for the last scene; else the scene is removed, and when it was the active
\* scene the first of the remaining scenes becomes active.
SceneManager_removeScene ==
    /\ \E scene \in ScenePointers :
         IF scene = 0 \/ indexOf(m_scenes, scene) < 0 \/ lastScene
         THEN /\ sceneRet' = [op |-> "removeScene", scene |-> scene, result |-> FALSE]
              /\ UNCHANGED << m_scenes, m_activeScene >>
         ELSE /\ m_scenes' = removeAt(m_scenes, indexOf(m_scenes, scene))
              /\ m_activeScene' = IF m_activeScene = scene
                                  THEN (IF m_scenes' = << >> THEN 0 ELSE m_scenes'[1])
                                  ELSE m_activeScene
              /\ sceneRet' = [op |-> "removeScene", scene |-> scene, result |-> TRUE]
    /\ UNCHANGED created
    /\ UNCHANGED << pipelineVars, itemVars, sourceVars, backendVars, sideVars >>

\* A test that finds every scene in the list.
contains_Always(scenes, scene) ==
    TRUE

\* m_scenes.contains(scene)
contains(scenes, scene) ==
    scene \in Range(scenes)

\* SceneManager::setActiveScene: nothing when the scene is active already or is
\* not in the list; nullptr is accepted.
SceneManager_setActiveScene ==
    /\ \E scene \in ScenePointers :
         IF m_activeScene # scene /\ ~(scene # 0 /\ ~contains(m_scenes, scene))
         THEN /\ m_activeScene' = scene
              /\ sceneRet' = [op |-> "setActiveScene", scene |-> scene, result |-> TRUE]
         ELSE /\ sceneRet' = [op |-> "setActiveScene", scene |-> scene, result |-> FALSE]
              /\ UNCHANGED m_activeScene
    /\ UNCHANGED << m_scenes, created >>
    /\ UNCHANGED << pipelineVars, itemVars, sourceVars, backendVars, sideVars >>

NextScenes ==
    \/ SceneManager_createScene
    \/ SceneManager_removeScene
    \/ SceneManager_setActiveScene

SpecScenes == Init /\ [][NextScenes]_vars

\* C22: the manager holds at least one scene at all times, and removeScene on the
\* last remaining scene returns false and removes nothing.
C22_AtLeastOneScene ==
    /\ [](Len(m_scenes) >= 1)
    /\ [][ (sceneRet' # sceneRet /\ sceneRet'.op = "removeScene" /\ Len(m_scenes) = 1) =>
             (~sceneRet'.result /\ m_scenes' = m_scenes) ]_vars

\* C22 witness: after scenes were created and removed, removeScene was called on
\* the one scene left, which is not the scene of the constructor, and refused.
C22_Witness ==
    /\ sceneRet.op = "removeScene" /\ ~sceneRet.result
    /\ m_scenes = << sceneRet.scene >> /\ sceneRet.scene # 1

\* ===========================================================================
\* Sources: plugin instances and the scene items that refer to them
\* ===========================================================================

\* PluginManager::createSource(id): the singleton instance of a loaded plugin,
\* else nullptr.
createSource(id) ==
    m_plugins[id]

\* The ISource pointers a caller has to pass: nullptr and what createSource returns.
SourcePointers ==
    {0} \cup { createSource(id) : id \in PluginIds }

\* A call through a pointer to a destroyed object, or its second delete: the
\* process dies, or goes on.
undefined(objects) ==
    IF objects \subseteq live
    THEN UNCHANGED useAfterFree
    ELSE \E dies \in BOOLEAN : useAfterFree' = dies

\* PluginManager::loadPlugin: true at once when loaded; else the loader creates
\* the instance, which is initialized.
PluginManager_loadPlugin ==
    /\ ~useAfterFree
    /\ \E id \in PluginIds :
         /\ m_plugins[id] = 0
         /\ made < MaxSources
         /\ made' = made + 1
         /\ m_plugins' = [m_plugins EXCEPT ![id] = made']
         /\ live' = live \cup {made'}
    /\ UNCHANGED << inScene, m_source, m_ownsSource, useAfterFree >>
    /\ UNCHANGED << pipelineVars, itemVars, scenesVars, backendVars, sideVars >>

\* PluginManager::unloadPlugin: true at once when not loaded; else
\* instance->shutdown(), loader->unload() (which destroys the instance),
\* instance = nullptr, isLoaded = false. No item is asked.
PluginManager_unloadPlugin ==
    /\ ~useAfterFree
    /\ \E id \in PluginIds :
         /\ m_plugins[id] # 0
         /\ undefined({m_plugins[id]})
         /\ live' = live \ {m_plugins[id]}
         /\ m_plugins' = [m_plugins EXCEPT ![id] = 0]
    /\ UNCHANGED << made, inScene, m_source, m_ownsSource >>
    /\ UNCHANGED << pipelineVars, itemVars, scenesVars, backendVars, sideVars >>

\* Scene::addItem(name, source): new SceneItem(name, source, this); the item
\* does not own the source.
SceneItem_SceneItem ==
    /\ ~useAfterFree
    /\ \E l \in Layers \ inScene, source \in SourcePointers :
         /\ inScene' = inScene \cup {l}
         /\ undefined(IF source = 0 THEN {} ELSE {source})
         /\ m_source' = [m_source EXCEPT ![l] = source]
         /\ m_ownsSource' = [m_ownsSource EXCEPT ![l] = FALSE]
    /\ UNCHANGED << m_plugins, made, live >>
    /\ UNCHANGED << pipelineVars, itemVars, scenesVars, backendVars, sideVars >>

\* SceneItem::setSource: nothing for the source the item has; else a source the
\* item owns is deleted, the new one is stored and m_ownsSource = true.
SceneItem_setSource ==
    /\ ~useAfterFree
    /\ \E l \in inScene, source \in SourcePointers :
         /\ m_source[l] # source
         /\ LET deleted == IF m_ownsSource[l] /\ m_source[l] # 0
                           THEN {m_source[l]} ELSE {}
                used == IF source = 0 THEN {} ELSE {source} IN
              /\ undefined(deleted \cup (used \ (live \ deleted)))
              /\ live' = live \ deleted
         /\ m_source' = [m_source EXCEPT ![l] = source]
         /\ m_ownsSource' = [m_ownsSource EXCEPT ![l] = TRUE]
    /\ UNCHANGED << m_plugins, made, inScene >>
    /\ UNCHANGED << pipelineVars, itemVars, scenesVars, backendVars, sideVars >>

\* The sources a set of items deletes in its destructors.
owned(layers) ==
    { m_source[l] : l \in { k \in layers : m_ownsSource[k] /\ m_source[k] # 0 } }

\* Two of the items own the same source: it is deleted twice.
deletedTwice(layers) ==
    \E k, l \in layers :
        k # l /\ m_ownsSource[k] /\ m_ownsSource[l] /\ m_source[k] # 0
              /\ m_source[k] = m_source[l]

\* SceneItem::~SceneItem for each of the items: a source the item owns is deleted.
destroyed(layers) ==
    /\ IF deletedTwice(layers)
       THEN \E dies \in BOOLEAN : useAfterFree' = dies
       ELSE undefined(owned(layers))
    /\ live' = live \ owned(layers)
    /\ inScene' = inScene \ layers
    /\ m_source' = [l \in Layers |-> IF l \in layers THEN 0 ELSE m_source[l]]
    /\ m_ownsSource' = [l \in Layers |-> IF l \in layers THEN FALSE ELSE m_ownsSource[l]]
    /\ UNCHANGED << m_plugins, made >>

\* Scene::removeItem followed by the deferred delete of the item.
SceneItem_removeItem ==
    /\ ~useAfterFree
    /\ \E l \in inScene : destroyed({l})
    /\ UNCHANGED << pipelineVars, itemVars, scenesVars, backendVars, sideVars >>

\* Scene::clear followed by the deferred delete of every item.
SceneItem_clear ==
    /\ ~useAfterFree
    /\ inScene # {}
    /\ destroyed(inScene)
    /\ UNCHANGED << pipelineVars, itemVars, scenesVars, backendVars, sideVars >>

NextSource ==
    \/ PluginManager_loadPlugin
    \/ PluginManager_unloadPlugin
    \/ SceneItem_SceneItem
    \/ SceneItem_setSource
    \/ SceneItem_removeItem
    \/ SceneItem_clear

SpecSource == Init /\ [][NextSource]_vars

\* C24: every item of the scene that has a source refers to a source object that
\* has not been destroyed.
C24_SourcesOfLayersLive ==
    \A l \in inScene : m_source[l] # 0 => m_source[l] \in live

\* ---------------------------------------------------------------------------
\* Rejected calls of the transmitter
\* ---------------------------------------------------------------------------

\* A startStream call, of either overload, that returns false: Impl::start() is
\* not Streaming (it would return true) and finds the stored URL empty, which for
\* the overload with arguments is the URL just passed.
rejectedStart ==
    /\ StreamManager_startStream \/ StreamManager_startStreamUrl
    /\ m_state # "Streaming"
    /\ m_settings'.url = ""

\* A StreamManager::configure call that returns false: Streaming or Connecting.
rejectedConfigure ==
    /\ StreamManager_configure
    /\ m_state \in {"Streaming", "Connecting"}

\* C27: a rejected configure call (while Connecting or Streaming) and a startStream
\* call of either overload that returns false because the URL is empty leave the
\* stored settings, the state of the stage and its worker unchanged.
C27_RejectedCallsChangeNothing ==
    [][ (rejectedConfigure \/ rejectedStart)
          => UNCHANGED << m_settings, m_state, m_running, m_outputThread >> ]_vars

\* ---------------------------------------------------------------------------
\* The encoder's settings and the codec it selects
\* ---------------------------------------------------------------------------

\* EncoderManager::configure: refused while running, else the settings are stored.
EncoderManager_configure ==
    /\ ~faulted
    /\ UNCHANGED << registered, m_activeEncoderName, m_activeEncoderType >>
    /\ \E t \in EncoderType, r \in RateControlMode :
         enc_settings' = IF enc_running
                         THEN enc_settings
                         ELSE [encoderType |-> t, rateControl |-> r]
    /\ UNCHANGED << pipelineVars, itemVars, scenesVars, sourceVars, sideVars >>

\* The encoder configured, started and stopped, its worker doing no more than
\* return, with any build of libavcodec.
NextBackend ==
    \/ EncoderManager_configure
    \/ EncoderManager_start
    \/ EncoderManager_stop
    \/ encoder_stop_join
    \/ encodingLoop_return

SpecBackend == InitBuilds /\ [][NextBackend]_vars

\* A start() call that finds the encoder stopped.
startsStopped ==
    EncoderManager_start /\ ~enc_running

\* C28: start() fails when the rate control mode is CRF and the selected codec is
\* a hardware one, and when the mode is CQP and the selected codec is libx264.
C28_UnsupportedRateControlRefused ==
    [][ (startsStopped /\ enc_running')
          => /\ ~(enc_settings.rateControl = "CRF" /\ m_activeEncoderName' # "libx264")
             /\ ~(enc_settings.rateControl = "CQP" /\ m_activeEncoderName' = "libx264")
      ]_vars

\* The codecs in the order of preference of type Auto.
AutoOrder == << "h264_nvenc", "h264_amf", "h264_qsv", "libx264" >>

\* The positions in AutoOrder of the codecs the build has.
availableAt == {i \in 1 .. Len(AutoOrder) : AutoOrder[i] \in registered}

\* C29: a start() with type Auto fails, leaving the encoder not running with no
\* worker and no codec context, exactly when the build has none of the four
\* codecs; otherwise it selects the first one the build has, in the order
\* h264_nvenc, h264_amf, h264_qsv, libx264, and reports its name and type.
C29_AutoStartsFirstAvailable ==
    [][ (startsStopped /\ enc_settings.encoderType = "Auto")
          => IF availableAt = {}
             THEN ~enc_running' /\ m_encoderThread' = "none" /\ ~m_codecContext'
             ELSE LET first == AutoOrder[CHOOSE i \in availableAt :
                                           \A j \in availableAt : i <= j]
                  IN  /\ enc_running'
                      /\ m_activeEncoderName' = first
                      /\ m_activeEncoderType' = typeOf(first)
      ]_vars

\* ---------------------------------------------------------------------------
\* The preview output of the render tick
\* ---------------------------------------------------------------------------

\* The scene manager with its preview callback and output size set at any time,
\* the encoder started and stopped, its worker doing no more than return.
NextPreview ==
    \/ SceneControl
    \/ SceneManager_setPreviewCallback
    \/ SceneManager_setOutputResolution
    \/ SceneManager_onRenderTick
    \/ pushFrame_emplace(1)
    \/ MainThreadIdle /\ EncoderManager_start
    \/ MainThreadIdle /\ EncoderManager_stop
    \/ encoder_stop_join
    \/ encodingLoop_return

SpecPreview == Init /\ [][NextPreview]_vars

\* A step that is a render tick: the frame timer has gone on by one interval.
renderTick ==
    m_frameTimer' = m_frameTimer + 1

\* C30 (as the code has it): on every render tick that renders a frame that is not
\* null while a preview callback is set, the callback is called exactly once with
\* the frame of the tick, whether encoder output is enabled or not, and when it is
\* enabled the frame stamped for the encoder is that same frame; a change of the
\* encoder output flag changes nothing else.
C30_PreviewOnceEveryTick ==
    /\ [][ (renderTick /\ m_previewCallback /\ ~QImage_isNull(m_outputResolution))
             => /\ preview' = [calls |-> 1, frame |-> m_frameTimer']
                /\ m_encoderOutputEnabled => lastPts' = pts(preview'.frame)
                /\ ~m_encoderOutputEnabled => UNCHANGED << lastPts, encVars >> ]_vars
    /\ [][ m_encoderOutputEnabled' # m_encoderOutputEnabled
             => UNCHANGED << m_renderLoopRunning, m_frameTimer, m_lastFrameTime, lastPts,
                             ticksEnabled, renderStop, previewVars, streamVars, encVars,
                             layerVars, objectVars >> ]_vars

\* C30 witness: the frame of the first tick went to the preview and the encoder,
\* and the frame of the second tick, rendered with encoder output disabled, went
\* to the preview only.
C30_Witness ==
    /\ preview = [calls |-> 1, frame |-> 2]
    /\ lastPts = pts(1)
    /\ ~m_encoderOutputEnabled
    /\ m_lastFrameTime = 2

\* C30 (as stated): on every render tick, with a preview callback set, the
\* callback is called exactly once with the frame of the tick.
C30_PreviewEveryTick ==
    [][ (renderTick /\ m_previewCallback)
          => preview' = [calls |-> 1, frame |-> m_frameTimer'] ]_vars

\* ---------------------------------------------------------------------------
\* Timestamps: from the frame counter of the encoder to the DTS on the stream
\* ---------------------------------------------------------------------------

\* pushFrame with pts < 0: pts = m_frameCounter * (AV_TIME_BASE / m_settings.fpsNum),
\* in integers.
autoPts(m_frameCounter, fpsNum) ==
    m_frameCounter * (AV_TIME_BASE \div fpsNum)

\* processPacket hands on the DTS of the packet of the codec, which for a codec
\* without B-frames (bFrames = 0) is the PTS of the frame.
packetDts(framePts) ==
    framePts

RECURSIVE gcd(_, _)
gcd(a, b) ==
    IF b = 0 THEN a ELSE gcd(b, a % b)

\* av_rescale_q(a, bq, cq) for a >= 0: a * bq / cq rounded to the nearest integer,
\* halves away from zero; computed on the reduced fraction.
av_rescale_q(a, bq, cq) ==
    LET b == bq.num * cq.den
        c == cq.num * bq.den
        g == gcd(b, c)
    IN  (a * (b \div g) + ((c \div g) \div 2)) \div (c \div g)

\* sendPacket: av_packet_rescale_ts from the timebase {1, 1000000} it takes the
\* encoder to have, to the timebase {1, 1000} of the stream.
sendPacket_dts(dts) ==
    av_rescale_q(dts, [num |-> 1, den |-> 1000000], [num |-> 1, den |-> 1000])

\* One more frame pushed with pts = -1, encoded and sent: its DTS on the stream.
stampFrame ==
    /\ stamped.frames < MaxStamped
    /\ stamped' = [stamped EXCEPT
                     !.frames = @ + 1,
                     !.dts = sendPacket_dts(packetDts(autoPts(stamped.frames,
                                                              stamped.rate.fpsNum)))]
    /\ UNCHANGED << pipelineVars, itemVars, scenesVars, sourceVars, backendVars,
                    captureVars, lockVars >>

\* An encoder configured with any of the frame rates.
InitStamps ==
    /\ Constructed
    /\ registered = Codecs
    /\ traced = FALSE

SpecStamps == InitStamps /\ [][stampFrame]_vars

\* The time of frame n of a stream of the rate, in milliseconds, rounded to the
\* nearest: round(n * fpsDen * 1000 / fpsNum).
milliseconds(n, rate) ==
    LET g == gcd(1000, rate.fpsNum)
        d == rate.fpsNum \div g
    IN  (n * rate.fpsDen * (1000 \div g) + (d \div 2)) \div d

\* C31: at the frame rate 60000/1001, with PTS taken from the frame counter, the
\* DTS on the stream of the last of 3600 frames is within 1 ms of
\* round(3599 * 1001 * 1000 / 60000).
C31_DtsOfLastFrame ==
    (stamped.frames = 3600 /\ stamped.rate = [fpsNum |-> 60000, fpsDen |-> 1001])
       => /\ stamped.dts - milliseconds(3599, stamped.rate) <= 1
          /\ milliseconds(3599, stamped.rate) - stamped.dts <= 1

\* ---------------------------------------------------------------------------
\* CaptureManager: the capture session, its target and its mutex
\* ---------------------------------------------------------------------------

\* initialize(), under m_mutex: nothing when initialized already; otherwise the
\* platform check, the D3D11 device and the WinRT wrapper succeed or fail.
CaptureManager_initialize ==
    /\ capture.pc = "idle"
    /\ capture.m_mutex = "free"
    /\ \E ok \in BOOLEAN :
          capture' = [capture EXCEPT !.m_initialized = @ \/ ok]
    /\ UNCHANGED << pipelineVars, itemVars, scenesVars, sourceVars, backendVars,
                    timingVars, lockVars >>

\* start(), under m_mutex: initializes when needed (with the mutex released for
\* the call), returns at once when running, and sets m_running when the session
\* on the current target could be created; a session created is one on a target
\* that is open.
CaptureManager_start ==
    /\ capture.pc = "idle"
    /\ capture.m_mutex = "free"
    /\ \E initialized, started \in BOOLEAN :
          LET init == capture.m_initialized \/ initialized
          IN  capture' =
                 IF ~init
                    THEN capture
                    ELSE IF capture.m_running
                            THEN [capture EXCEPT !.m_initialized = init]
                            ELSE IF ~started
                                    THEN [capture EXCEPT !.m_initialized = init]
                                    ELSE [capture EXCEPT !.m_initialized = init,
                                                         !.m_running = TRUE,
                                                         !.closed = FALSE]
    /\ UNCHANGED << pipelineVars, itemVars, scenesVars, sourceVars, backendVars,
                    timingVars, lockVars >>

\* The body of stop() once it has m_mutex: nothing when not running; otherwise
\* stopCapture() and m_running = false. The latest texture of the session is kept.
stopLocked(c) ==
    IF ~c.m_running THEN c ELSE [c EXCEPT !.m_running = FALSE]

\* stop() called by the user of the source.
CaptureManager_stop ==
    /\ capture.pc = "idle"
    /\ capture.m_mutex = "free"
    /\ capture' = stopLocked(capture)
    /\ UNCHANGED << pipelineVars, itemVars, scenesVars, sourceVars, backendVars,
                    timingVars, lockVars >>

\* shutdown() up to its call of stop(): takes m_mutex and returns at once when
\* not initialized; otherwise it goes on to stop() with m_mutex held.
CaptureManager_shutdown ==
    /\ capture.pc = "idle"
    /\ capture.m_mutex = "free"
    /\ capture' = IF ~capture.m_initialized
                     THEN capture
                     ELSE [capture EXCEPT !.m_mutex = "shutdown", !.pc = "stop"]
    /\ UNCHANGED << pipelineVars, itemVars, scenesVars, sourceVars, backendVars,
                    timingVars, lockVars >>

\* shutdown() from its call of stop(): stop() takes m_mutex, a QMutex that is not
\* recursive, so with the mutex held the thread waits for it; with the mutex free
\* stop() runs, then cleanup() and m_initialized = false, and the mutex is released.
shutdown_stop ==
    /\ capture.pc = "stop"
    /\ capture' = IF capture.m_mutex = "free"
                     THEN [stopLocked(capture) EXCEPT !.m_initialized = FALSE,
                                                      !.pc = "idle"]
                     ELSE [capture EXCEPT !.pc = "blocked"]
    /\ UNCHANGED << pipelineVars, itemVars, scenesVars, sourceVars, backendVars,
                    timingVars, lockVars >>

\* onFrameArrived, on the thread of the frame pool: a frame of the open target
\* arrives and becomes the latest texture.
onFrameArrived ==
    /\ capture.m_running
    /\ ~capture.closed
    /\ capture.m_latestTexture < MaxCaptured
    /\ capture' = [capture EXCEPT !.m_latestTexture = @ + 1]
    /\ UNCHANGED << pipelineVars, itemVars, scenesVars, sourceVars, backendVars,
                    timingVars, lockVars >>

\* The target of the running session closes: the Closed handler emits
\* captureClosed(), a signal nothing is connected to.
GraphicsCaptureItem_Closed ==
    /\ capture.m_running
    /\ ~capture.closed
    /\ capture' = [capture EXCEPT !.closed = TRUE]
    /\ UNCHANGED << pipelineVars, itemVars, scenesVars, sourceVars, backendVars,
                    timingVars, lockVars >>

\* getLatestFrame(): the latest texture, 0 for none.
getLatestFrame(c) ==
    c.m_latestTexture

\* captureVideoFrame(), called by the render loop: no frame when not running or
\* when there is no latest texture; otherwise a frame of the latest texture.
captureVideoFrame(c) ==
    IF ~c.m_running
       THEN 0
       ELSE getLatestFrame(c)

CaptureManager_captureVideoFrame ==
    /\ capture.pc = "idle"
    /\ capture' = [capture EXCEPT !.returned = captureVideoFrame(capture)]
    /\ UNCHANGED << pipelineVars, itemVars, scenesVars, sourceVars, backendVars,
                    timingVars, lockVars >>

NextCapture ==
    \/ CaptureManager_initialize
    \/ CaptureManager_start
    \/ CaptureManager_stop
    \/ CaptureManager_shutdown
    \/ shutdown_stop
    \/ onFrameArrived
    \/ GraphicsCaptureItem_Closed
    \/ CaptureManager_captureVideoFrame

\* The capture source used by a render loop that keeps asking it for frames.
SpecCapture ==
    Init /\ [][NextCapture]_vars /\ WF_vars(CaptureManager_captureVideoFrame)

\* C32: after the target of a running capture has closed, captureVideoFrame()
\* returns no frame from some time on, while the source is left running and the
\* render loop keeps asking.
C32_NoFrameAfterGrace ==
    (capture.closed /\ capture.m_running /\ capture.m_latestTexture > 0)
       ~> (capture.returned = 0 \/ ~capture.m_running \/ capture.pc # "idle")

\* C39: shutdown() never waits for the mutex of the manager while holding it.
C39_ShutdownNeverWaitsForItself ==
    ~(capture.pc = "blocked" /\ capture.m_mutex = "shutdown")

\* C33: every write to a field of the statistics of the encoder or of the
\* transmitter is made by a thread that holds the statistics mutex of the stage.
C33_StatsWrittenUnderStatsMutex ==
    \A f \in StatsFields : statsWrites[f] \in {"unwritten", "m_statsMutex"}

\* C34: the reorder operations only permute the layer list. moveItem(from, to)
\* with both indices in range and from # to puts the layer that was at from at
\* index to, keeps the other layers in their order and returns true; with an
\* index out of range or from = to it returns false and leaves the list as it
\* was. bringToFront and sendToBack put a layer of the scene at the last and at
\* the first index, keeping the others in their order, and leave the list as it
\* was for a layer that is not in the scene.
C34_ReorderOnlyPermutes ==
    [][ LET returns(op) == call.op = op /\ call' = NoCall
            others(s, x) == SelectSeq(s, LAMBDA e : e # x)
            placed(x, at) ==
                /\ Len(m_items') = Len(m_items)
                /\ m_items'[at + 1] = x
                /\ others(m_items', x) = others(m_items, x)
        IN  /\ returns("moveItem") =>
                IF /\ call.from >= 0 /\ call.from < Len(m_items)
                   /\ call.to >= 0 /\ call.to < Len(m_items)
                   /\ call.from # call.to
                THEN placed(m_items[call.from + 1], call.to) /\ ret'.value = 1
                ELSE m_items' = m_items /\ ret'.value = 0
            /\ returns("bringToFront") =>
                IF call.item \in Range(m_items)
                THEN placed(call.item, Len(m_items) - 1)
                ELSE m_items' = m_items
            /\ returns("sendToBack") =>
                IF call.item \in Range(m_items)
                THEN placed(call.item, 0)
                ELSE m_items' = m_items
      ]_vars

\* C34 witness: moveItem has moved a layer of a scene of three layers from the
\* bottom to the top, over the layer between.
C34_Witness ==
    /\ ret = [op |-> "moveItem", value |-> 1]
    /\ m_items = << 2, 3, 1 >>

\* C35: there is at most one worker thread of the transmitter: a startStream
\* called in Connecting, Reconnecting or Error, while the worker runs or is still
\* joinable, constructs no second std::thread (the construction the assignment
\* to the joinable m_outputThread ends with std::terminate).
C35_AtMostOneWorker ==
    [][ (m_outputThread # "none" /\ m_state \in {"Connecting", "Reconnecting", "Error"})
           => terminated' = terminated ]_vars

\* C36: every packet submitted to writePacket is accounted for: the number
\* submitted is packetsWritten + droppedPackets + the packets in the queue, in
\* the hands of queuePacket or taken by the worker and not yet sent.
C36_EveryPacketAccounted ==
    submitted = m_stats.packetsWritten + m_stats.droppedPackets
                + Len(m_packetQueue)
                + (IF writePc = "queuePacket" THEN 1 ELSE 0)
                + (IF queuedPacket # NoPacket THEN 1 ELSE 0)

\* C37: once stopStream has returned and until the next startStream (the state
\* is Stopped and no stop is under way) the queue of the transmitter is empty,
\* also when writePacket runs at the same time as stopStream.
C37_QueueEmptyOnceStopped ==
    (m_state = "Stopped" /\ stopPc = "idle") => m_packetQueue = << >>

\* C38: a pushFrame that runs at the same time as stop() of the encoder does not
\* bring the process down on a codec or scaler context that stop() has freed,
\* and once stop() has returned (not running, contexts released, no stop under
\* way) no frame is in the queue.
C38_PushFrameSafeAgainstStop ==
    /\ ~faulted
    /\ (encStopPc = "idle" /\ ~enc_running /\ ~m_codecContext) => m_frameQueue = << >>

\* C40: the active scene is none or a scene of the list at all times;
\* setActiveScene with a scene that is not in the list leaves the active scene as
\* it was; a removeScene that removes the active scene makes the first of the
\* remaining scenes the active one.
C40_ActiveSceneInList ==
    /\ [](m_activeScene = 0 \/ m_activeScene \in Range(m_scenes))
    /\ [][ (sceneRet' # sceneRet /\ sceneRet'.op = "setActiveScene"
            /\ sceneRet'.scene # 0 /\ sceneRet'.scene \notin Range(m_scenes)) =>
              m_activeScene' = m_activeScene ]_vars
    /\ [][ (sceneRet' # sceneRet /\ sceneRet'.op = "removeScene" /\ sceneRet'.result
            /\ sceneRet'.scene = m_activeScene) =>
              (m_scenes' # << >> /\ m_activeScene' = Head(m_scenes')) ]_vars

\* C40 witness: the scene of the constructor was removed from a list of three
\* scenes, the second is now the first and the active one, and the removed scene
\* is no longer in the list.
C40_Witness ==
    /\ sceneRet = [op |-> "removeScene", scene |-> 1, result |-> TRUE]
    /\ m_scenes = << 2, 3 >>
    /\ m_activeScene = 2

====
